---- MODULE Spec2Model ----
\* Symbol indexing engine (backend/app/core/indexer.py) and dependency /
\* architecture engine (backend/app/core/arch_analyzer.py) as state machines.
EXTENDS Integers, Sequences, FiniteSets, TLC

VARIABLES
  src,        \* front-end: for every source file, which translation unit it currently parses to
  files,      \* table "files"      (FileRecord rows)
  symbols,    \* table "symbols"    (Symbol rows)
  refs,       \* table "references" (Reference rows)
  includes,   \* table "includes"   (Include rows)
  ops,        \* number of operations (index runs and edits) so far
  last,       \* the last index_file call: its file, its outcome, the rows it added
  ast,        \* front-end: the cursors of a translation unit under construction
  out,        \* what the engine computes for ast once it is parsed
  arch,       \* the last answer of the architecture analyzer
  projects,   \* table "projects"           (Project rows)
  modules,    \* table "modules"            (ModuleDefinition rows)
  rules,      \* table "architecture_rules" (ArchitectureRule rows)
  scan        \* the scan_project task of every project: where it stands

vars == <<src, files, symbols, refs, includes, ops, last, ast, out, arch,
          projects, modules, rules, scan>>

\* ------------------------------------------------------------------ bounds
MaxOps == 3
\* nodes the front-end may add below the function of a generated translation unit
MaxStmts == 3
MaxExprs == 4
\* Include rows of the project the analyzer reads
MaxIncludes == 4

\* ------------------------------------------------------------------ helpers
Max(S) == IF S = {} THEN 0 ELSE CHOOSE m \in S : \A k \in S : k <= m

\* SQLite INTEGER PRIMARY KEY without AUTOINCREMENT: the new rowid is max(rowid)+1
NextId(table) == Max({r.id : r \in table}) + 1

RECURSIVE SeqSum(_)
SeqSum(s) == IF s = <<>> THEN 0 ELSE Head(s) + SeqSum(Tail(s))

RECURSIVE Flatten(_)
Flatten(ss) == IF ss = <<>> THEN <<>> ELSE Head(ss) \o Flatten(Tail(ss))

\* ------------------------------------------------------------------ paths
\* A path is the sequence of its segments below "/".
RECURSIVE NormPath(_, _)
NormPath(todo, done) ==
  IF todo = <<>> THEN done
  ELSE IF Head(todo) = "." THEN NormPath(Tail(todo), done)
  ELSE IF Head(todo) = ".."
       THEN NormPath(Tail(todo), IF done = <<>> THEN <<>> ELSE SubSeq(done, 1, Len(done) - 1))
  ELSE NormPath(Tail(todo), Append(done, Head(todo)))

\* os.path.abspath on an absolute path: normalisation of "." and ".." segments
AbsPath(p) == NormPath(p, <<>>)

NoFile == <<>>
PathA == <<"p", "a.c">>
PathB == <<"p", "b.c">>
PathH == <<"p", "h.h">>
\* the header as the front-end spells it when it is reached through an #include
PathHInc == <<"p", ".", "h.h">>
\* a system header outside the project
PathSys == <<"usr", "include", "s.h">>

\* a file of a second project, rooted at /q
PathQ == <<"q", "c.c">>

SourceFiles == {PathA, PathB, PathH, PathQ}

\* ------------------------------------------------------------------ AST front-end
\* A cursor: kind, parent (0 for the root), location.file, get_usr(), the node
\* that get_definition() or referenced yields (0 when unresolved), the operator
\* token the node itself spells, is_definition().  location.line is the index.
Nd(kind, parent, file, usr, ref, op, isdef) ==
  [kind |-> kind, parent |-> parent, file |-> file, usr |-> usr, ref |-> ref,
   op |-> op, isdef |-> isdef]

Inc(source, include, line) == [source |-> source, include |-> include, line |-> line]

Children(nodes, n) == {c \in 1..Len(nodes) : nodes[c].parent = n}

\* list(node.get_children()), in source order
ChildSeq(nodes, n) ==
  LET IsChild(c) == nodes[c].parent = n
  IN SelectSeq([i \in 1..Len(nodes) |-> i], IsChild)

\* the nodes of the subtree rooted at n, n included
RECURSIVE Subtree(_, _)
Subtree(nodes, n) ==
  {n} \cup UNION {Subtree(nodes, c) : c \in Children(nodes, n)}

\* node.get_tokens(): every token of the node's extent, nested expressions
\* included; only operator spellings are kept (identifiers and literals match
\* no operator set)
RECURSIVE Tokens(_, _)
Tokens(nodes, n) ==
  LET kids == ChildSeq(nodes, n)
      own  == IF nodes[n].op = "" THEN <<>> ELSE <<nodes[n].op>>
  IN IF kids = <<>> THEN own
     ELSE Tokens(nodes, kids[1]) \o own
          \o Flatten([i \in 1..(Len(kids) - 1) |-> Tokens(nodes, kids[i + 1])])

\* ------------------------------------------------------------------ complexity
DecisionKinds ==
  {"IF_STMT", "WHILE_STMT", "FOR_STMT", "CASE_STMT", "DEFAULT_STMT",
   "CONDITIONAL_OPERATOR", "DO_STMT"}

LogicalOps == {"&&", "||"}

IsLogicalOp(t) == t \in LogicalOps

\* count_decision_points(node): what one call adds to the counter, its
\* recursion into the children included
RECURSIVE CountDecisionPoints(_, _)
CountDecisionPoints(nodes, n) ==
  LET kids == ChildSeq(nodes, n)
  IN (IF nodes[n].kind \in DecisionKinds THEN 1 ELSE 0)
     + (IF nodes[n].kind = "BINARY_OPERATOR"
        THEN Len(SelectSeq(Tokens(nodes, n), IsLogicalOp)) ELSE 0)
     + SeqSum([i \in 1..Len(kids) |-> CountDecisionPoints(nodes, kids[i])])

CalculateCyclomaticComplexity(nodes, n) ==
  IF nodes[n].kind # "FUNCTION_DECL" THEN 0
  ELSE 1 + CountDecisionPoints(nodes, n)

\* ------------------------------------------------------------------ symbols
\* kind_map.get(cursor.kind, SymbolType.VARIABLE)
SymbolKind(kind) ==
  CASE kind = "FUNCTION_DECL"    -> "function"
    [] kind = "VAR_DECL"         -> "variable"
    [] kind = "STRUCT_DECL"      -> "struct"
    [] kind = "TYPEDEF_DECL"     -> "typedef"
    [] kind = "FIELD_DECL"       -> "field"
    [] kind = "PARM_DECL"        -> "variable"
    [] kind = "ENUM_DECL"        -> "enum"
    [] kind = "UNION_DECL"       -> "union"
    [] kind = "MACRO_DEFINITION" -> "macro"
    [] OTHER                     -> "variable"

\* The session of one index_file call: the committed tables, the rows added
\* to the session but not yet committed (autoflush is off), the indexer's
\* current file, and whether an exception is propagating.  failNode is the
\* node whose visit raises (0: index.parse raises; beyond the tree: nothing
\* raises).
NewSession(fs, ss, rs, is, failNode) ==
  [files |-> fs, symbols |-> ss, refs |-> rs, includes |-> is,
   pRefs |-> <<>>, pIncs |-> <<>>,
   file_path |-> NoFile, current_file_id |-> 0,
   failNode |-> failNode, raised |-> FALSE]

\* db.commit(): pending rows are inserted in the order they were added
Commit(st) ==
  LET r0 == Max({r.id : r \in st.refs})
      i0 == Max({r.id : r \in st.includes})
  IN [st EXCEPT
        !.refs = @ \cup {[st.pRefs[k] EXCEPT !.id = r0 + k] : k \in 1..Len(st.pRefs)},
        !.includes = @ \cup {[st.pIncs[k] EXCEPT !.id = i0 + k] : k \in 1..Len(st.pIncs)},
        !.pRefs = <<>>,
        !.pIncs = <<>>]

\* db.rollback(): pending rows are dropped
Rollback(st) == [st EXCEPT !.pRefs = <<>>, !.pIncs = <<>>]

\* db.query(Symbol).filter(Symbol.usr == usr)
FindSymbolMissesDeclarations(syms, usr) == {s \in syms : s.usr = usr /\ s.is_definition}

FindSymbol(syms, usr) == {s \in syms : s.usr = usr}

\* a get-or-create in which a definition met later takes the row over
GetOrCreateSymbolPrefersDefinition(nodes, n, st) ==
  IF n = 0 THEN [st |-> st, id |-> 0]
  ELSE
    LET cursor == nodes[n]
        usr    == cursor.usr
        found  == FindSymbol(st.symbols, usr)
        fresh  == [id |-> IF found # {} THEN (CHOOSE s \in found : TRUE).id
                          ELSE NextId(st.symbols),
                   usr |-> usr,
                   kind |-> SymbolKind(cursor.kind),
                   line |-> n,
                   cyclomatic_complexity |->
                     IF cursor.kind = "FUNCTION_DECL"
                     THEN CalculateCyclomaticComplexity(nodes, n) ELSE 0,
                   is_definition |-> cursor.isdef,
                   file_id |-> st.current_file_id]
    IN IF usr = "" THEN [st |-> st, id |-> 0]
       ELSE IF found # {} /\ ~cursor.isdef
       THEN [st |-> st, id |-> fresh.id]
       ELSE [st |-> Commit([st EXCEPT !.symbols = (@ \ found) \cup {fresh}]), id |-> fresh.id]

\* get_or_create_symbol(cursor): the session after the call and the id of the
\* Symbol returned (0 for None)
GetOrCreateSymbol(nodes, n, st) ==
  IF n = 0 THEN [st |-> st, id |-> 0]
  ELSE
    LET cursor == nodes[n]
        usr    == cursor.usr
    IN IF usr = "" THEN [st |-> st, id |-> 0]
       ELSE
         LET found == FindSymbol(st.symbols, usr)
         IN IF found # {}
            THEN [st |-> st, id |-> (CHOOSE s \in found : TRUE).id]
            ELSE
              LET id == NextId(st.symbols)
                  symbol == [id |-> id,
                             usr |-> usr,
                             kind |-> SymbolKind(cursor.kind),
                             line |-> n,
                             cyclomatic_complexity |->
                               IF cursor.kind = "FUNCTION_DECL"
                               THEN CalculateCyclomaticComplexity(nodes, n) ELSE 0,
                             is_definition |-> cursor.isdef,
                             file_id |-> st.current_file_id]
              IN [st |-> Commit([st EXCEPT !.symbols = @ \cup {symbol}]), id |-> id]

\* ------------------------------------------------------------------ traversal
DefinitionKinds == {"FUNCTION_DECL", "STRUCT_DECL", "TYPEDEF_DECL", "VAR_DECL"}

AssignOps == {"=", "+=", "-=", "*=", "/=", "%=", "&=", "|=", "^=", "<<=", ">>="}

\* any(t in assign_ops for t in tokens) on the tokens of the node
IsAssign(nodes, n) ==
  /\ nodes[n].kind \in {"BINARY_OPERATOR", "COMPOUND_ASSIGNMENT_OPERATOR"}
  /\ LET tokens == Tokens(nodes, n)
     IN \E i \in 1..Len(tokens) : tokens[i] \in AssignOps

\* the kind of Reference a node stands for ("" for none)
RefKindIgnoresContext(kind, is_written_context) ==
  CASE kind = "CALL_EXPR" -> "call"
    [] kind \in {"DECL_REF_EXPR", "MEMBER_REF_EXPR"} -> "read"
    [] OTHER -> ""

RefKind(kind, is_written_context) ==
  CASE kind = "CALL_EXPR" -> "call"
    [] kind \in {"DECL_REF_EXPR", "MEMBER_REF_EXPR"} ->
         IF is_written_context THEN "write" ELSE "read"
    [] OTHER -> ""

\* "if parent_symbol_id:" guards the recording of a Reference
ScopeActiveAlways(parent_symbol_id) == TRUE

ScopeActive(parent_symbol_id) == parent_symbol_id # 0

\* the scope handed to the children by the default recursion
NextScopeKeepsParent(is_definition, current_symbol_id, parent_symbol_id) == parent_symbol_id

NextScope(is_definition, current_symbol_id, parent_symbol_id) ==
  IF is_definition THEN current_symbol_id ELSE parent_symbol_id

\* a default recursion that hands its own write context down
ChildContextInherited(is_written_context) == is_written_context

\* the write context handed to the children by the default recursion
\* ("is_written_context=False")
ChildContext(is_written_context) == FALSE

RECURSIVE VisitNode(_, _, _, _, _)
RECURSIVE VisitAll(_, _, _, _, _)

\* for child in kids: self.visit_node(child, scope, is_written_context=w)
VisitAll(nodes, kids, scope, w, st) ==
  IF kids = <<>> THEN st
  ELSE VisitAll(nodes, Tail(kids), scope, w, VisitNode(nodes, Head(kids), scope, w, st))

\* visit_node(node, parent_symbol_id, is_written_context)
VisitNode(nodes, n, parent_symbol_id, is_written_context, st) ==
  IF st.raised THEN st
  ELSE IF n = st.failNode THEN [st EXCEPT !.raised = TRUE]
  ELSE
    LET node == nodes[n]
        is_definition == node.kind \in DefinitionKinds
        in_current_file == node.file # NoFile /\ AbsPath(node.file) = st.file_path
        \* 1. a definition of the current file becomes the scope
        def == IF is_definition /\ in_current_file
               THEN GetOrCreateSymbol(nodes, n, st)
               ELSE [st |-> st, id |-> 0]
        current_symbol_id == IF def.id # 0 THEN def.id ELSE parent_symbol_id
        \* 2. a reference met inside a scope
        ref_kind == RefKind(node.kind, is_written_context)
        tgt == IF ScopeActive(parent_symbol_id) /\ ref_kind # "" /\ node.ref # 0
               THEN GetOrCreateSymbol(nodes, node.ref, def.st)
               ELSE [st |-> def.st, id |-> 0]
        st2 == IF tgt.id # 0
               THEN [tgt.st EXCEPT !.pRefs = Append(@,
                       [id |-> 0,
                        source_id |-> parent_symbol_id,
                        target_id |-> tgt.id,
                        kind |-> ref_kind,
                        file_id |-> st.current_file_id,
                        line |-> n])]
               ELSE tgt.st
        kids == ChildSeq(nodes, n)
    IN \* 3. recursion
       IF IsAssign(nodes, n)
       THEN IF kids = <<>> THEN st2
            ELSE VisitAll(nodes, Tail(kids), parent_symbol_id, FALSE,
                          VisitNode(nodes, Head(kids), parent_symbol_id, TRUE, st2))
       ELSE VisitAll(nodes, kids,
                     NextScope(is_definition, current_symbol_id, parent_symbol_id),
                     ChildContext(is_written_context), st2)

\* ------------------------------------------------------------------ includes
\* db.query(FileRecord).filter(FileRecord.path == path).first(): its id, 0 for None
FileIdOf(fs, path) ==
  IF \E f \in fs : f.path = path THEN (CHOOSE f \in fs : f.path = path).id ELSE 0

RECURSIVE ExtractIncludes(_, _)
ExtractIncludes(incs, st) ==
  IF incs = <<>> THEN st
  ELSE
    LET inclusion == Head(incs)
        source_path == AbsPath(inclusion.source)
        target_path == inclusion.include
    IN IF source_path # st.file_path THEN ExtractIncludes(Tail(incs), st)
       ELSE ExtractIncludes(Tail(incs),
              [st EXCEPT !.pIncs = Append(@,
                 [id |-> 0,
                  source_file_id |-> st.current_file_id,
                  target_path |-> target_path,
                  target_file_id |-> FileIdOf(st.files, AbsPath(target_path)),
                  line |-> inclusion.line])])

\* ------------------------------------------------------------------ index_file
\* get_or_create_file(path)
GetOrCreateFile(path, st) ==
  LET abs_path == AbsPath(path)
  IN IF FileIdOf(st.files, abs_path) # 0 THEN st
     ELSE [st EXCEPT !.files = @ \cup {[id |-> NextId(st.files), path |-> abs_path,
                                          module_id |-> 0]}]

\* "清理旧的 symbols 和 includes": the rows of the file are deleted, then commit
DeleteOldOfEveryFile(st) == [st EXCEPT !.symbols = {}, !.includes = {}]

DeleteOld(st) ==
  [st EXCEPT !.symbols = {s \in @ : s.file_id # st.current_file_id},
             !.includes = {i \in @ : i.source_file_id # st.current_file_id}]

\* index_file(file_path) on the translation unit tu the front-end yields
IndexFileSession(path, tu, st0) ==
  LET st1 == GetOrCreateFile(path, [st0 EXCEPT !.file_path = AbsPath(path)])
      st2 == [st1 EXCEPT !.current_file_id = FileIdOf(st1.files, AbsPath(path))]
      st3 == Commit(DeleteOld(st2))
  IN IF st3.failNode = 0
     THEN Rollback([st3 EXCEPT !.raised = TRUE])
     ELSE LET st4 == ExtractIncludes(tu.includes, st3)
              st5 == VisitNode(tu.nodes, 1, 0, FALSE, st4)
          IN IF st5.raised THEN Rollback(st5) ELSE Commit(st5)

\* ------------------------------------------------------------------ the project's sources
\* p/h.h:  int g(int); extern int x; static inline int hf(void) { return g(0); }
HeaderNodes(file, gdef) ==
  << Nd("TRANSLATION_UNIT", 0, NoFile, "", 0, "", FALSE),
     Nd("FUNCTION_DECL", 1, file, "c:@F@g", 0, "", FALSE),
     Nd("VAR_DECL", 1, file, "c:@x", 0, "", FALSE),
     Nd("FUNCTION_DECL", 1, file, "c:@F@hf", 0, "", TRUE),
     Nd("CALL_EXPR", 4, file, "", gdef, "", FALSE) >>

\* p/a.c:  #include "h.h"  #include <s.h>
\*         int y;
\*         int f(void) { g(1); x; x = y + 1; int z = g(2); }
TuA1 ==
  [nodes |-> HeaderNodes(PathHInc, 2) \o
     << Nd("VAR_DECL", 1, PathA, "c:@y", 0, "", TRUE),
        Nd("FUNCTION_DECL", 1, PathA, "c:@F@f", 0, "", TRUE),
        Nd("CALL_EXPR", 7, PathA, "", 2, "", FALSE),
        Nd("UNEXPOSED_EXPR", 7, PathA, "", 0, "", FALSE),
        Nd("DECL_REF_EXPR", 9, PathA, "", 3, "", FALSE),
        Nd("BINARY_OPERATOR", 7, PathA, "", 0, "=", FALSE),
        Nd("DECL_REF_EXPR", 11, PathA, "", 3, "", FALSE),
        Nd("BINARY_OPERATOR", 11, PathA, "", 0, "+", FALSE),
        Nd("DECL_REF_EXPR", 13, PathA, "", 6, "", FALSE),
        Nd("VAR_DECL", 7, PathA, "c:a.c@F@f@z", 0, "=", TRUE),
        Nd("CALL_EXPR", 15, PathA, "", 2, "", FALSE) >>,
   includes |-> << Inc(PathA, PathHInc, 1), Inc(PathHInc, PathSys, 1), Inc(PathA, PathSys, 2) >>]

\* p/a.c, edited:  #include "h.h"
\*         enum E { K = sizeof(x) };
\*         int w = g(0);
\*         int f(void) { if ((x = 1) == w) ; w += (*fp)(); }
TuA2 ==
  [nodes |-> HeaderNodes(PathHInc, 2) \o
     << Nd("ENUM_DECL", 1, PathA, "c:@E@E", 0, "", TRUE),
        Nd("ENUM_CONSTANT_DECL", 6, PathA, "c:@E@E@K", 0, "=", TRUE),
        Nd("DECL_REF_EXPR", 7, PathA, "", 3, "", FALSE),
        Nd("VAR_DECL", 1, PathA, "c:@w", 0, "=", TRUE),
        Nd("CALL_EXPR", 9, PathA, "", 2, "", FALSE),
        Nd("FUNCTION_DECL", 1, PathA, "c:@F@f", 0, "", TRUE),
        Nd("IF_STMT", 11, PathA, "", 0, "", FALSE),
        Nd("BINARY_OPERATOR", 12, PathA, "", 0, "==", FALSE),
        Nd("PAREN_EXPR", 13, PathA, "", 0, "", FALSE),
        Nd("BINARY_OPERATOR", 14, PathA, "", 0, "=", FALSE),
        Nd("DECL_REF_EXPR", 15, PathA, "", 3, "", FALSE),
        Nd("INTEGER_LITERAL", 15, PathA, "", 0, "", FALSE),
        Nd("UNEXPOSED_EXPR", 13, PathA, "", 0, "", FALSE),
        Nd("DECL_REF_EXPR", 18, PathA, "", 9, "", FALSE),
        Nd("COMPOUND_ASSIGNMENT_OPERATOR", 11, PathA, "", 0, "+=", FALSE),
        Nd("DECL_REF_EXPR", 20, PathA, "", 9, "", FALSE),
        Nd("CALL_EXPR", 20, PathA, "", 0, "", FALSE) >>,
   includes |-> << Inc(PathA, PathHInc, 1) >>]

\* p/b.c:  #include "h.h"
\*         int x = 0;
\*         int g(int k) { if (x && x && x) ; for (;;) ; }
TuB1 ==
  [nodes |-> HeaderNodes(PathHInc, 7) \o
     << Nd("VAR_DECL", 1, PathB, "c:@x", 0, "=", TRUE),
        Nd("FUNCTION_DECL", 1, PathB, "c:@F@g", 0, "", TRUE),
        Nd("IF_STMT", 7, PathB, "", 0, "", FALSE),
        Nd("BINARY_OPERATOR", 8, PathB, "", 0, "&&", FALSE),
        Nd("BINARY_OPERATOR", 9, PathB, "", 0, "&&", FALSE),
        Nd("DECL_REF_EXPR", 10, PathB, "", 6, "", FALSE),
        Nd("DECL_REF_EXPR", 10, PathB, "", 6, "", FALSE),
        Nd("DECL_REF_EXPR", 9, PathB, "", 6, "", FALSE),
        Nd("FOR_STMT", 7, PathB, "", 0, "", FALSE) >>,
   includes |-> << Inc(PathB, PathHInc, 1) >>]

\* p/b.c, edited:  int f(void);
\*         int g(int k) { f(); while (k) ; }
\*         typedef struct S { int m; } T;
TuB2 ==
  [nodes |->
     << Nd("TRANSLATION_UNIT", 0, NoFile, "", 0, "", FALSE),
        Nd("FUNCTION_DECL", 1, PathB, "c:@F@f", 0, "", FALSE),
        Nd("FUNCTION_DECL", 1, PathB, "c:@F@g", 0, "", TRUE),
        Nd("CALL_EXPR", 3, PathB, "", 2, "", FALSE),
        Nd("WHILE_STMT", 3, PathB, "", 0, "", FALSE),
        Nd("TYPEDEF_DECL", 1, PathB, "c:@T@T", 0, "", TRUE),
        Nd("STRUCT_DECL", 6, PathB, "c:@S@S", 0, "", TRUE),
        Nd("FIELD_DECL", 7, PathB, "c:@S@S@FI@m", 0, "", TRUE) >>,
   includes |-> << >>]

\* p/h.h indexed as a file of its own:  #include <s.h>
TuH1 ==
  [nodes |-> HeaderNodes(PathH, 2),
   includes |-> << Inc(PathH, PathSys, 1) >>]

\* q/c.c:  int g(int);
\*         int m(void) { g(3); }
TuQ1 ==
  [nodes |->
     << Nd("TRANSLATION_UNIT", 0, NoFile, "", 0, "", FALSE),
        Nd("FUNCTION_DECL", 1, PathQ, "c:@F@g", 0, "", FALSE),
        Nd("FUNCTION_DECL", 1, PathQ, "c:@F@m", 0, "", TRUE),
        Nd("CALL_EXPR", 3, PathQ, "", 2, "", FALSE) >>,
   includes |-> << >>]

\* what index.parse(file_path) can yield for each file
Catalog(path) ==
  CASE path = PathA -> <<TuA1, TuA2>>
    [] path = PathB -> <<TuB1, TuB2>>
    [] path = PathH -> <<TuH1>>
    [] path = PathQ -> <<TuQ1>>

TuOf(path) == Catalog(path)[src[path]]

\* ------------------------------------------------------------------ state machine
NoCall == [file |-> NoFile, ok |-> FALSE, newRefs |-> {}]

NoResult == [done |-> FALSE, cc |-> << >>, refs |-> {}]

NoAnswer == [op |-> "none", groups |-> {}, layers |-> << >>]

Init ==
  /\ src \in [SourceFiles -> {1}]
  /\ files = {}
  /\ symbols = {}
  /\ refs = {}
  /\ includes = {}
  /\ ops = 0
  /\ last = NoCall
  /\ ast = << >>
  /\ out = NoResult
  /\ arch = NoAnswer
  /\ projects = {}
  /\ modules = {}
  /\ rules = {}
  /\ scan = << >>

\* where a call can raise: 0 (index.parse raises), the visit of a call
\* expression of the file itself (resolving its target raises), or past the
\* tree (nothing raises)
FailPoints(path, tu) ==
  {0, Len(tu.nodes) + 1}
  \cup {n \in 1..Len(tu.nodes) : tu.nodes[n].kind = "CALL_EXPR" /\ tu.nodes[n].file = path}

\* Indexer.index_file(path)
IndexFile(path, failNode) ==
  /\ ops < MaxOps
  /\ LET st == IndexFileSession(path, TuOf(path),
                                NewSession(files, symbols, refs, includes, failNode))
     IN /\ files' = st.files
        /\ symbols' = st.symbols
        /\ refs' = st.refs
        /\ includes' = st.includes
        /\ last' = [file |-> path, ok |-> ~st.raised,
                    newRefs |-> {r.id : r \in st.refs \ refs}]
  /\ ops' = ops + 1
  /\ UNCHANGED <<src, ast, out, arch, projects, modules, rules, scan>>

\* the user edits a source file between two index runs
EditFile(path) ==
  /\ \E v \in 1..Len(Catalog(path)) :
       /\ v # src[path]
       /\ src' = [src EXCEPT ![path] = v]
  /\ ops < MaxOps
  /\ ops' = ops + 1
  /\ last' = NoCall
  /\ UNCHANGED <<files, symbols, refs, includes, ast, out, arch, projects, modules, rules, scan>>

Next ==
  \/ \E path \in SourceFiles : \E failNode \in FailPoints(path, TuOf(path)) : IndexFile(path, failNode)
  \/ \E path \in SourceFiles : EditFile(path)

Spec == Init /\ [][Next]_vars

\* ------------------------------------------------------------------ views of the store
FilePathOf(fs, id) ==
  IF \E f \in fs : f.id = id THEN (CHOOSE f \in fs : f.id = id).path ELSE NoFile

UsrOf(syms, id) ==
  IF \E s \in syms : s.id = id THEN (CHOOSE s \in syms : s.id = id).usr ELSE "?"

SymbolIdOf(syms, usr) ==
  IF \E s \in syms : s.usr = usr THEN (CHOOSE s \in syms : s.usr = usr).id ELSE 0

\* a multiset of rows compared up to row ids: how many rows have each image
BagOf(view) ==
  [v \in {view[r] : r \in DOMAIN view} |-> Cardinality({r \in DOMAIN view : view[r] = v})]

SymbolView(fs, s) ==
  [usr |-> s.usr, kind |-> s.kind, line |-> s.line,
   cyclomatic_complexity |-> s.cyclomatic_complexity,
   is_definition |-> s.is_definition, file |-> FilePathOf(fs, s.file_id)]

IncludeView(fs, i) ==
  [source |-> FilePathOf(fs, i.source_file_id), target_path |-> i.target_path,
   target |-> FilePathOf(fs, i.target_file_id), line |-> i.line]

ReferenceView(fs, syms, r) ==
  [source |-> UsrOf(syms, r.source_id), target |-> UsrOf(syms, r.target_id),
   kind |-> r.kind, file |-> FilePathOf(fs, r.file_id), line |-> r.line]

FileRows == {f.path : f \in files}
SymbolRows == BagOf([s \in symbols |-> SymbolView(files, s)])
IncludeRows == BagOf([i \in includes |-> IncludeView(files, i)])
ReferenceRows == BagOf([r \in refs |-> ReferenceView(files, symbols, r)])

\* the Reference rows the last index_file call committed
NewRefs == {r \in refs : r.id \in last.newRefs}

LastNodes == TuOf(last.file).nodes

\* ------------------------------------------------------------------ scope, declaratively
\* a declaration node that opens a scope when path is the file being indexed
TrackedDeclaration(nodes, n, path) ==
  /\ nodes[n].kind \in {"FUNCTION_DECL", "STRUCT_DECL", "TYPEDEF_DECL", "VAR_DECL"}
  /\ nodes[n].file # NoFile
  /\ AbsPath(nodes[n].file) = AbsPath(path)

\* the nearest proper ancestor of n that is a tracked declaration (0: none)
RECURSIVE NearestScope(_, _, _)
NearestScope(nodes, n, path) ==
  LET p == nodes[n].parent
  IN IF p = 0 THEN 0
     ELSE IF TrackedDeclaration(nodes, p, path) THEN p
     ELSE NearestScope(nodes, p, path)

\* a call or a name reference whose target the front-end resolves to a declared entity
ResolvedRefNode(nodes, n) ==
  /\ nodes[n].kind \in {"CALL_EXPR", "DECL_REF_EXPR", "MEMBER_REF_EXPR"}
  /\ nodes[n].ref # 0
  /\ nodes[nodes[n].ref].usr # ""

\* ------------------------------------------------------------------ claims
\* C1: after any sequence of index_file calls (any files, any order, re-indexing
\* and failed parses included) no two Symbol rows have the same usr.
C1_UsrUnique == \A s, t \in symbols : s.usr = t.usr => s = t

\* C1 witness: b.c was indexed after a.c and met g, whose row a.c had created.
C1_Witness ==
  /\ last.file = PathB /\ last.ok
  /\ \E s \in symbols : s.usr = "c:@F@g" /\ FilePathOf(files, s.file_id) = PathA
  /\ \E r \in NewRefs : UsrOf(symbols, r.target_id) = "c:@x"

\* C2: indexing the same unchanged file twice in succession leaves the same
\* File, Symbol, Include and Reference rows (up to row ids) as indexing it once.
C2_Idempotent ==
  [][(last.file # NoFile /\ last.ok /\ last'.file = last.file /\ last'.ok)
       => /\ FileRows' = FileRows
          /\ SymbolRows' = SymbolRows
          /\ IncludeRows' = IncludeRows
          /\ ReferenceRows' = ReferenceRows]_vars

\* C3: every Reference is created with a non-null source_id that is the id of
\* an existing Symbol, and a call or name reference outside any tracked
\* declaration creates no Reference.
C3_SourceValid ==
  \A r \in NewRefs :
    /\ r.source_id # 0
    /\ \E s \in symbols : s.id = r.source_id
    /\ NearestScope(LastNodes, r.line, last.file) # 0

\* C3 witness: the edited a.c was indexed; its enum initialiser and the header's
\* inline function hold references outside any tracked declaration.
C3_Witness ==
  /\ last.file = PathA /\ last.ok /\ src[PathA] = 2
  /\ NewRefs # {}
  /\ \E n \in 1..Len(LastNodes) :
       /\ ResolvedRefNode(LastNodes, n)
       /\ LastNodes[n].file = PathA
       /\ NearestScope(LastNodes, n, PathA) = 0

\* C4: every Reference recorded while indexing a file has source_id = the
\* Symbol id of the nearest ancestor declaration node located in that file, and
\* a run that completes records one Reference for every resolved call or name
\* reference that has such an ancestor.
C4_ScopeAttribution ==
  last.file # NoFile =>
    LET nodes == LastNodes
        got  == {<<r.line, r.source_id>> : r \in NewRefs}
        want == {<<n, SymbolIdOf(symbols, nodes[NearestScope(nodes, n, last.file)].usr)>> :
                   n \in {m \in 1..Len(nodes) :
                            /\ ResolvedRefNode(nodes, m)
                            /\ NearestScope(nodes, m, last.file) # 0}}
    IN /\ got \subseteq want
       /\ Cardinality(NewRefs) = Cardinality(got)
       /\ last.ok => got = want

\* C4 witness: f of a.c calls g and reads x; both References have f as source.
C4_Witness ==
  /\ last.file = PathA /\ last.ok /\ src[PathA] = 1
  /\ \E c, r \in NewRefs :
       /\ c.kind = "call" /\ UsrOf(symbols, c.target_id) = "c:@F@g"
       /\ r.kind = "read" /\ UsrOf(symbols, r.target_id) = "c:@x"
       /\ UsrOf(symbols, c.source_id) = "c:@F@f"
       /\ r.source_id = c.source_id

\* ------------------------------------------------------------------ generated translation units
\* p/a.c:  int x; int y; int f(void) { ... }   the body of f is generated
FnPrefix ==
  << Nd("TRANSLATION_UNIT", 0, NoFile, "", 0, "", FALSE),
     Nd("VAR_DECL", 1, PathA, "c:@x", 0, "", TRUE),
     Nd("VAR_DECL", 1, PathA, "c:@y", 0, "", TRUE),
     Nd("FUNCTION_DECL", 1, PathA, "c:@F@f", 0, "", TRUE) >>

FnRoot == Len(FnPrefix)

\* statement-level cursors: kind and own operator token
StmtTemplates ==
  {<<k, "">> : k \in DecisionKinds \cup {"COMPOUND_STMT"}}
  \cup {<<"BINARY_OPERATOR", o>> : o \in {"&&", "||", "<"}}

\* expression-level cursors: kind, own operator token, referenced declaration
ExprTemplates ==
  { <<"BINARY_OPERATOR", "=", 0>>,
    <<"BINARY_OPERATOR", "+", 0>>,
    <<"UNEXPOSED_EXPR", "", 0>>,
    <<"DECL_REF_EXPR", "", 2>>,
    <<"DECL_REF_EXPR", "", 3>> }

\* the last node and its ancestors inside f: where the next cursor, in source
\* order, can hang
RECURSIVE RightPath(_, _)
RightPath(nodes, n) ==
  IF n <= FnRoot THEN {FnRoot} ELSE {n} \cup RightPath(nodes, nodes[n].parent)

OpenParents(nodes) ==
  {p \in RightPath(nodes, Len(nodes)) : nodes[p].kind # "DECL_REF_EXPR"}

\* the front-end reports one more cursor of f's body
Grow(kind, op, ref, max) ==
  /\ ~out.done
  /\ Len(ast) < FnRoot + max
  /\ \E p \in OpenParents(ast) :
       ast' = Append(ast, Nd(kind, p, PathA, "", ref, op, FALSE))
  /\ UNCHANGED <<src, files, symbols, refs, includes, ops, last, out, arch, projects, modules, rules, scan>>

GrowStmt == \E t \in StmtTemplates : Grow(t[1], t[2], 0, MaxStmts)

GrowExpr == \E t \in ExprTemplates : Grow(t[1], t[2], t[3], MaxExprs)

\* index_file on the generated translation unit, in an empty store
Analyze ==
  /\ ~out.done
  /\ LET st == IndexFileSession(PathA, [nodes |-> ast, includes |-> << >>],
                                NewSession({}, {}, {}, {}, Len(ast) + 1))
     IN out' = [done |-> TRUE,
                cc |-> [n \in 1..Len(ast) |-> CalculateCyclomaticComplexity(ast, n)],
                refs |-> {[line |-> r.line, kind |-> r.kind,
                           source |-> UsrOf(st.symbols, r.source_id),
                           target |-> UsrOf(st.symbols, r.target_id)] : r \in st.refs}]
  /\ UNCHANGED <<src, files, symbols, refs, includes, ops, last, ast, arch, projects, modules, rules, scan>>

InitAst ==
  /\ src \in [SourceFiles -> {1}]
  /\ files = {}
  /\ symbols = {}
  /\ refs = {}
  /\ includes = {}
  /\ ops = 0
  /\ last = NoCall
  /\ ast = FnPrefix
  /\ out = NoResult
  /\ arch = NoAnswer
  /\ projects = {}
  /\ modules = {}
  /\ rules = {}
  /\ scan = << >>

\* complexity of generated function bodies
SpecCC == InitAst /\ [][GrowStmt \/ Analyze]_vars

\* traversal of generated expressions
SpecVisit == InitAst /\ [][GrowExpr \/ Analyze]_vars

\* ------------------------------------------------------------------ architecture analyzer
ProjectRoot == <<"p">>

\* the files of the analyzed project
FileNames == <<"a.c", "b.c", "c.c", "d.c">>

NumFiles == Len(FileNames)

\* FileRecord.path == root_path, or FileRecord.path LIKE root_path/%
UnderRoot(path, root) ==
  \/ path = root
  \/ Len(path) > Len(root) /\ SubSeq(path, 1, Len(root)) = root

\* _get_project_files()
ProjectFiles(fs, root) ==
  IF root = << >> THEN {} ELSE {f \in fs : UnderRoot(f.path, root)}

\* build_include_graph(): a node per project file, an edge per Include of a
\* project file whose target is resolved (add_edge adds its end points)
BuildIncludeGraph(fs, incs, root) ==
  LET pf == {f.id : f \in ProjectFiles(fs, root)}
      edges == {<<i.source_file_id, i.target_file_id>> :
                  i \in {j \in incs : j.source_file_id \in pf /\ j.target_file_id # 0}}
  IN [nodes |-> pf \cup {e[1] : e \in edges} \cup {e[2] : e \in edges},
      edges |-> edges]

Successors(G, S) == {e[2] : e \in {d \in G.edges : d[1] \in S}}

Predecessors(G, n) == {e[1] : e \in {d \in G.edges : d[2] = n}}

\* the nodes reachable from S along edges, S included
RECURSIVE ReachFrom(_, _)
ReachFrom(G, S) ==
  LET T == S \cup Successors(G, S)
  IN IF T = S THEN S ELSE ReachFrom(G, T)

\* nx.strongly_connected_components(G)
StronglyConnectedComponents(G) ==
  {{m \in G.nodes : m \in ReachFrom(G, {n}) /\ n \in ReachFrom(G, {m})} : n \in G.nodes}

\* nx.is_directed_acyclic_graph(G): no node lies on a cycle, self-loops included
IsDirectedAcyclicGraph(G) ==
  \A n \in G.nodes : n \notin ReachFrom(G, Successors(G, {n}))

\* nx.condensation(G): one node per component, an edge between two different
\* components when an edge of G joins their members
Condensation(G) ==
  LET sccs == StronglyConnectedComponents(G)
  IN [nodes |-> sccs,
      edges |-> {<<c, d>> \in sccs \X sccs :
                   c # d /\ \E e \in G.edges : e[1] \in c /\ e[2] \in d}]

\* nx.topological_sort: the orders it can yield, every edge going forward
RECURSIVE TopologicalOrders(_, _)
TopologicalOrders(nodes, edges) ==
  IF nodes = {} THEN {<< >>}
  ELSE UNION {{<<n>> \o o : o \in TopologicalOrders(nodes \ {n}, edges)} :
                n \in {m \in nodes : ~\E e \in edges : e[2] = m /\ e[1] \in nodes /\ e[1] # m}}

\* "if len(scc) > 1": single-node components are no cycle
IsCircularGroupCountsSingletons(scc) == Cardinality(scc) >= 1

IsCircularGroup(scc) == Cardinality(scc) > 1

\* detect_circular_dependencies()
DetectCircularDependencies(fs, incs, root) ==
  {scc \in StronglyConnectedComponents(BuildIncludeGraph(fs, incs, root)) : IsCircularGroup(scc)}

\* "for layer, scc_id in enumerate(topo_order)": the layer of the k-th component
PositionLayerFromOne(k) == k

PositionLayer(k) == k - 1

\* the cyclic branch: every member of the k-th component of the order gets its position
CondensationLayers(G, topo_order) ==
  [n \in G.nodes |->
     PositionLayer(CHOOSE k \in 1..Len(topo_order) : n \in topo_order[k])]

\* "max(layers.get(p, 0) for p in predecessors) + 1"
LayerOfNodeFromSuccessors(G, layers, node) ==
  LET successors == Successors(G, {node})
  IN IF successors = {} THEN 0
     ELSE Max({IF p \in DOMAIN layers THEN layers[p] ELSE 0 : p \in successors}) + 1

LayerOfNode(G, layers, node) ==
  LET predecessors == Predecessors(G, node)
  IN IF predecessors = {} THEN 0
     ELSE Max({IF p \in DOMAIN layers THEN layers[p] ELSE 0 : p \in predecessors}) + 1

\* the acyclic branch: the loop over nx.topological_sort(G)
RECURSIVE AcyclicLayers(_, _, _)
AcyclicLayers(G, order, layers) ==
  IF order = << >> THEN layers
  ELSE LET node == Head(order)
       IN AcyclicLayers(G, Tail(order),
            [n \in DOMAIN layers \cup {node} |->
               IF n = node THEN LayerOfNode(G, layers, node) ELSE layers[n]])

\* what compute_levelization() can return
Levelizations(fs, incs, root) ==
  LET G == BuildIncludeGraph(fs, incs, root)
  IN IF ~IsDirectedAcyclicGraph(G)
     THEN LET scc_graph == Condensation(G)
          IN {CondensationLayers(G, o) :
                o \in TopologicalOrders(scc_graph.nodes, scc_graph.edges)}
     ELSE {AcyclicLayers(G, o, << >>) : o \in TopologicalOrders(G.nodes, G.edges)}

\* the files the analyzer's project holds
InitArch ==
  /\ src \in [SourceFiles -> {1}]
  /\ files = {[id |-> i, path |-> ProjectRoot \o <<FileNames[i]>>, module_id |-> 0] :
                i \in 1..NumFiles}
  /\ symbols = {}
  /\ refs = {}
  /\ includes = {}
  /\ ops = 0
  /\ last = NoCall
  /\ ast = << >>
  /\ out = NoResult
  /\ arch = NoAnswer
  /\ projects = {}
  /\ modules = {}
  /\ rules = {}
  /\ scan = << >>

\* a scan records one more Include row (target 0: the header is not a known
\* file); the analyzer is asked once the scans are over
AddInclude(source, target) ==
  /\ arch = NoAnswer
  /\ Cardinality(includes) < MaxIncludes
  /\ \A i \in includes :
       \/ i.source_file_id < source
       \/ i.source_file_id = source /\ i.target_file_id # 0 /\ i.target_file_id < target
       \/ i.source_file_id = source /\ target = 0
  /\ includes' = includes \cup
       {[id |-> NextId(includes), source_file_id |-> source, target_path |-> << >>,
         target_file_id |-> target, line |-> 1]}
  /\ UNCHANGED <<src, files, symbols, refs, ops, last, ast, out, arch, projects, modules, rules, scan>>

\* ArchitectureAnalyzer.detect_circular_dependencies()
DetectCircular ==
  /\ arch = NoAnswer
  /\ arch' = [op |-> "cycles",
              groups |-> DetectCircularDependencies(files, includes, ProjectRoot),
              layers |-> << >>]
  /\ UNCHANGED <<src, files, symbols, refs, includes, ops, last, ast, out, projects, modules, rules, scan>>

\* ArchitectureAnalyzer.compute_levelization()
ComputeLevelization ==
  /\ arch = NoAnswer
  /\ \E layers \in Levelizations(files, includes, ProjectRoot) :
       arch' = [op |-> "layers", groups |-> {}, layers |-> layers]
  /\ UNCHANGED <<src, files, symbols, refs, includes, ops, last, ast, out, projects, modules, rules, scan>>

NextArch ==
  \/ \E s \in 1..NumFiles : \E t \in 1..NumFiles : AddInclude(s, t)
  \/ AddInclude(NumFiles, 0)
  \/ DetectCircular
  \/ ComputeLevelization

SpecArch == InitArch /\ [][NextArch]_vars

\* ------------------------------------------------------------------ claims on generated trees
IsNameRef(nodes, n) == nodes[n].kind \in {"DECL_REF_EXPR", "MEMBER_REF_EXPR"}

\* a node that is itself an assignment: its own operator is an assignment operator
IsAssignmentNode(nodes, n) ==
  /\ nodes[n].kind \in {"BINARY_OPERATOR", "COMPOUND_ASSIGNMENT_OPERATOR"}
  /\ nodes[n].op \in AssignOps

HasAssignmentBelow(nodes, n) == \E m \in Subtree(nodes, n) : IsAssignmentNode(nodes, m)

RefsAt(n) == {r \in out.refs : r.line = n}

\* C5: for an assignment node inside f whose first child is a name reference to
\* x and whose remaining children reference y (x = y + 1), the engine records
\* (f->x, write) and (f->y, read) and no (f->x, read) for that occurrence.
C5_WriteClassification ==
  out.done =>
    \A n \in (FnRoot + 1)..Len(ast) :
      IsAssignmentNode(ast, n) =>
        LET kids == ChildSeq(ast, n)
        IN /\ (kids # << >> /\ IsNameRef(ast, kids[1])) =>
                RefsAt(kids[1]) = {[line |-> kids[1], kind |-> "write", source |-> "c:@F@f",
                                    target |-> ast[ast[kids[1]].ref].usr]}
           /\ \A i \in 2..Len(kids) :
                ~HasAssignmentBelow(ast, kids[i]) =>
                  \A m \in Subtree(ast, kids[i]) :
                    IsNameRef(ast, m) =>
                      RefsAt(m) = {[line |-> m, kind |-> "read", source |-> "c:@F@f",
                                    target |-> ast[ast[m].ref].usr]}

\* C5 witness: the body of f is x = y + 1
C5_Witness ==
  /\ out.done
  /\ Len(ast) = FnRoot + 4
  /\ ast[FnRoot + 1].kind = "BINARY_OPERATOR" /\ ast[FnRoot + 1].op = "="
  /\ ast[FnRoot + 2].kind = "DECL_REF_EXPR" /\ ast[FnRoot + 2].ref = 2
  /\ ast[FnRoot + 2].parent = FnRoot + 1
  /\ ast[FnRoot + 3].kind = "BINARY_OPERATOR" /\ ast[FnRoot + 3].op = "+"
  /\ ast[FnRoot + 3].parent = FnRoot + 1
  /\ ast[FnRoot + 4].kind = "DECL_REF_EXPR" /\ ast[FnRoot + 4].ref = 3
  /\ ast[FnRoot + 4].parent = FnRoot + 3
  /\ [line |-> FnRoot + 2, kind |-> "write", source |-> "c:@F@f", target |-> "c:@x"] \in out.refs
  /\ [line |-> FnRoot + 4, kind |-> "read", source |-> "c:@F@f", target |-> "c:@y"] \in out.refs

\* C6: the complexity of a function node is 1 + its if/while/for/do/case/
\* default/ternary nodes + its && and || operators; of any other node it is 0.
C6_Complexity ==
  out.done =>
    \A n \in 1..Len(ast) :
      out.cc[n] =
        IF ast[n].kind = "FUNCTION_DECL"
        THEN 1 + Cardinality({m \in Subtree(ast, n) : ast[m].kind \in DecisionKinds})
               + Cardinality({m \in Subtree(ast, n) :
                                ast[m].kind = "BINARY_OPERATOR" /\ ast[m].op \in LogicalOps})
        ELSE 0

\* ------------------------------------------------------------------ claims on the include graph
IncludeGraph == BuildIncludeGraph(files, includes, ProjectRoot)

\* the pairs <<a, b>> joined by a path of one edge or more whose inner nodes
\* are all <= k
RECURSIVE Conn(_, _, _)
Conn(N, E, k) ==
  IF k = 0 THEN E
  ELSE LET P == Conn(N, E, k - 1)
       IN P \cup {<<a, b>> \in N \X N : <<a, k>> \in P /\ <<k, b>> \in P}

\* the pairs of nodes of G joined by a path of one edge or more
PathRelation(G) == Conn(G.nodes, G.edges, Max(G.nodes))

\* a and b lie on a common include cycle (R: the path relation)
OnCommonCycle(R, a, b) == a # b /\ <<a, b>> \in R /\ <<b, a>> \in R

\* no node is on a cycle (R: the path relation)
Acyclic(G, R) == \A n \in G.nodes : <<n, n>> \notin R

EdgeSet == {<<i.source_file_id, i.target_file_id>> : i \in {j \in includes : j.target_file_id # 0}}

\* C7: detect_circular_dependencies returns exactly the strongly connected
\* components with at least 2 members: a file on an include cycle through
\* another file is in exactly one group, no file is in two groups, and a file on
\* no such cycle (a self-include included) is in no group.
C7_CircularGroups ==
  arch.op = "cycles" =>
    LET G == IncludeGraph
        R == PathRelation(G)
    IN /\ \A f \in G.nodes :
            Cardinality({g \in arch.groups : f \in g}) =
              IF \E o \in G.nodes : OnCommonCycle(R, f, o) THEN 1 ELSE 0
       /\ \A g \in arch.groups :
            /\ Cardinality(g) >= 2
            /\ \A a \in g : g = {a} \cup {b \in G.nodes : OnCommonCycle(R, a, b)}

\* C7 witness: 1 and 2 include each other, 3 includes itself, 4 is unrelated.
C7_Witness ==
  /\ arch.op = "cycles"
  /\ EdgeSet = {<<1, 2>>, <<2, 1>>, <<3, 3>>}
  /\ arch.groups = {{1, 2}}

\* the layering C8 states: by what a file includes
RECURSIVE InclusionLayer(_, _)
InclusionLayer(G, f) ==
  LET included == Successors(G, {f})
  IN IF included = {} THEN 0
     ELSE 1 + Max({InclusionLayer(G, t) : t \in included})

\* C8: in an acyclic include graph a file that includes no project file has
\* layer 0 and a file that includes others has 1 + the maximum layer of the
\* files it includes, so an included file has a lower layer than its includer.
C8_LayerByInclusion ==
  arch.op = "layers" =>
    LET G == IncludeGraph
    IN Acyclic(G, PathRelation(G)) =>
         /\ \A f \in G.nodes : arch.layers[f] = InclusionLayer(G, f)
         /\ \A e \in G.edges : arch.layers[e[2]] < arch.layers[e[1]]

\* the nodes that end a path of k edges
RECURSIVE PathEnds(_, _)
PathEnds(G, k) == IF k = 0 THEN G.nodes ELSE Successors(G, PathEnds(G, k - 1))

\* the length of the longest path of an acyclic G that ends at n
LongestPathTo(G, n) == Max({k \in 0..(Cardinality(G.nodes) - 1) : n \in PathEnds(G, k)})

\* C9: in an acyclic include graph (edges including file -> included file)
\* every node gets layer 0 if it has no predecessor and otherwise 1 + the
\* maximum layer of its predecessors: the length of the longest path that
\* ends at it.
C9_LongestPathLayers ==
  arch.op = "layers" =>
    LET G == IncludeGraph
    IN Acyclic(G, PathRelation(G)) =>
         /\ DOMAIN arch.layers = G.nodes
         /\ \A n \in G.nodes :
              LET preds == {e[1] : e \in {d \in G.edges : d[2] = n}}
              IN /\ arch.layers[n] =
                      IF preds = {} THEN 0 ELSE 1 + Max({arch.layers[p] : p \in preds})
                 /\ arch.layers[n] = LongestPathTo(G, n)

\* C9 witness: 3 includes 2, 2 includes 1; the includer 3 has no predecessor.
C9_Witness ==
  /\ arch.op = "layers"
  /\ EdgeSet = {<<3, 2>>, <<2, 1>>}
  /\ arch.layers[3] = 0 /\ arch.layers[2] = 1 /\ arch.layers[1] = 2 /\ arch.layers[4] = 0

SameComponent(R, a, b) == a = b \/ OnCommonCycle(R, a, b)

\* C10: in a cyclic include graph every file gets the 0-based position of its
\* strongly connected component in a topological order of the condensation:
\* the members of a component share a layer, different components get different
\* layers 0..k-1, and an edge between two components goes from the lower layer
\* to the higher.
C10_CondensationLayers ==
  arch.op = "layers" =>
    LET G == IncludeGraph
        R == PathRelation(G)
        k == Cardinality({{b \in G.nodes : SameComponent(R, a, b)} : a \in G.nodes})
    IN ~Acyclic(G, R) =>
         /\ DOMAIN arch.layers = G.nodes
         /\ \A a, b \in G.nodes : SameComponent(R, a, b) <=> arch.layers[a] = arch.layers[b]
         /\ {arch.layers[n] : n \in G.nodes} = 0..(k - 1)
         /\ \A e \in G.edges :
              ~SameComponent(R, e[1], e[2]) => arch.layers[e[1]] < arch.layers[e[2]]

\* C10 witness: 1 and 2 include each other and 2 includes 3.
C10_Witness ==
  /\ arch.op = "layers"
  /\ EdgeSet = {<<1, 2>>, <<2, 1>>, <<2, 3>>}
  /\ arch.layers[1] = arch.layers[2]
  /\ arch.layers[2] < arch.layers[3]
  /\ arch.layers[4] = 0

\* ------------------------------------------------------------------ the include graph of one project among others
\* the File table after two projects were scanned: p/a.c, p/b.c and p/sub/c.c
\* of the analyzed project, q/h.h of another one
SharedPaths == << <<"p", "a.c">>, <<"p", "b.c">>, <<"q", "h.h">>, <<"p", "sub", "c.c">> >>

InitGraph ==
  /\ src \in [SourceFiles -> {1}]
  /\ files = {[id |-> i, path |-> SharedPaths[i], module_id |-> 0] : i \in 1..Len(SharedPaths)}
  /\ symbols = {}
  /\ refs = {}
  /\ includes = {}
  /\ ops = 0
  /\ last = NoCall
  /\ ast = << >>
  /\ out = NoResult
  /\ arch = NoAnswer
  /\ projects = {}
  /\ modules = {}
  /\ rules = {}
  /\ scan = << >>

\* ArchitectureAnalyzer.build_include_graph()
BuildGraph ==
  /\ arch = NoAnswer
  /\ LET G == BuildIncludeGraph(files, includes, ProjectRoot)
     IN arch' = [op |-> "graph", nodes |-> G.nodes, edges |-> G.edges]
  /\ UNCHANGED <<src, files, symbols, refs, includes, ops, last, ast, out,
                 projects, modules, rules, scan>>

NextGraph ==
  \/ \E s \in 1..Len(SharedPaths) : \E t \in 0..Len(SharedPaths) : AddInclude(s, t)
  \/ BuildGraph

SpecGraph == InitGraph /\ [][NextGraph]_vars

\* C11: the node set of the graph is exactly the Files under the project root
\* and its edge set exactly the (source_file_id, target_file_id) pairs of the
\* project's Includes with a resolved target; an Include with a null target
\* contributes no node and no edge.
C11_GraphOfProject ==
  arch.op = "graph" =>
    LET project_files == {f.id : f \in {g \in files : UnderRoot(g.path, ProjectRoot)}}
    IN /\ arch.nodes = project_files
       /\ arch.edges = {<<i.source_file_id, i.target_file_id>> :
                          i \in {j \in includes : /\ j.source_file_id \in project_files
                                                  /\ j.target_file_id # 0}}

\* ------------------------------------------------------------------ scan_project
RootP == <<"p">>
RootQ == <<"q">>

\* the Project rows: create_project stores the root path, scan_status "pending"
ProjectRows ==
  {[id |-> 1, root_path |-> RootP, scan_status |-> "pending"],
   [id |-> 2, root_path |-> RootQ, scan_status |-> "pending"]}

ProjectIds == {p.id : p \in ProjectRows}

RootOf(project_id) == (CHOOSE p \in ProjectRows : p.id = project_id).root_path

\* the source files os.walk(root_path) finds
FilesToScan(root_path) == {path \in SourceFiles : UnderRoot(path, root_path)}

\* the orders in which os.walk can list them
WalkOrders(S) ==
  {order \in [1..Cardinality(S) -> S] : \A i, j \in 1..Cardinality(S) : order[i] = order[j] => i = j}

\* a scan task: not started, in the body before the file loop, in the file
\* loop, or returned; the files still to index; the index_file calls made;
\* whether the body raised outside the file loop
NoScan == [pc |-> "idle", todo |-> << >>, log |-> << >>, raised |-> FALSE]

InitScan ==
  /\ src \in [SourceFiles -> {1}]
  /\ files = {}
  /\ symbols = {}
  /\ refs = {}
  /\ includes = {}
  /\ ops = 0
  /\ last = NoCall
  /\ ast = << >>
  /\ out = NoResult
  /\ arch = NoAnswer
  /\ projects = ProjectRows
  /\ modules = {}
  /\ rules = {}
  /\ scan = [p \in ProjectIds |-> NoScan]

\* project.scan_status = status; db.commit()  ("if project:")
SetStatusNotCommitted(ps, project_id, status) == ps

SetStatus(ps, project_id, status) ==
  {IF p.id = project_id THEN [p EXCEPT !.scan_status = status] ELSE p : p \in ps}

\* scan_project, up to the commit of "scanning"
ScanStart(p) ==
  /\ scan[p].pc = "idle"
  /\ projects' = SetStatus(projects, p, "scanning")
  /\ scan' = [scan EXCEPT ![p].pc = "body"]
  /\ UNCHANGED <<src, files, symbols, refs, includes, ops, last, ast, out, arch, modules, rules>>

\* the files are collected
ScanCollect(p) ==
  /\ scan[p].pc = "body"
  /\ \E order \in WalkOrders(FilesToScan(RootOf(p))) :
       scan' = [scan EXCEPT ![p].pc = "loop", ![p].todo = order]
  /\ UNCHANGED <<src, files, symbols, refs, includes, ops, last, ast, out, arch,
                 projects, modules, rules>>

\* what the loop goes on with after a failed file
RemainingAbortsOnFailure(todo, ok) == IF ok THEN Tail(todo) ELSE << >>

\* "for idx, full_path in enumerate(files_to_scan)": failed or not, the next file
Remaining(todo, ok) == Tail(todo)

\* one turn of the file loop: index_file(full_path), which handles its own
\* parse and traversal failures
ScanIndexFile(p) ==
  /\ scan[p].pc = "loop"
  /\ scan[p].todo # << >>
  /\ LET path == Head(scan[p].todo)
     IN \E failNode \in FailPoints(path, TuOf(path)) :
          LET st == IndexFileSession(path, TuOf(path),
                                     NewSession(files, symbols, refs, includes, failNode))
          IN /\ files' = st.files
             /\ symbols' = st.symbols
             /\ refs' = st.refs
             /\ includes' = st.includes
             /\ last' = [file |-> path, ok |-> ~st.raised,
                         newRefs |-> {r.id : r \in st.refs \ refs}]
             /\ scan' = [scan EXCEPT ![p].todo = Remaining(@, ~st.raised),
                                     ![p].log = Append(@, [file |-> path, ok |-> ~st.raised])]
  /\ ops' = ops + 1
  /\ UNCHANGED <<src, ast, out, arch, projects, modules, rules>>

\* the loop is over: "completed" is committed
ScanComplete(p) ==
  /\ scan[p].pc = "loop"
  /\ scan[p].todo = << >>
  /\ projects' = SetStatus(projects, p, "completed")
  /\ scan' = [scan EXCEPT ![p].pc = "done"]
  /\ UNCHANGED <<src, files, symbols, refs, includes, ops, last, ast, out, arch, modules, rules>>

\* the body raises outside the file loop (before it, or at the commit of
\* "completed"): the handler commits "failed"
ScanRaise(p) ==
  /\ \/ scan[p].pc = "body"
     \/ scan[p].pc = "loop" /\ scan[p].todo = << >>
  /\ projects' = SetStatus(projects, p, "failed")
  /\ scan' = [scan EXCEPT ![p].pc = "done", ![p].raised = TRUE]
  /\ UNCHANGED <<src, files, symbols, refs, includes, ops, last, ast, out, arch, modules, rules>>

NextScan ==
  \E p \in ProjectIds :
    \/ ScanStart(p)
    \/ ScanCollect(p)
    \/ ScanIndexFile(p)
    \/ ScanComplete(p)
    \/ ScanRaise(p)

SpecScan == InitScan /\ [][NextScan]_vars

\* ------------------------------------------------------------------ claims on scans
StatusOf(project_id) == (CHOOSE p \in projects : p.id = project_id).scan_status

\* the Include rows of the files under a root
IncludesUnder(root_path) ==
  {i \in includes : UnderRoot(FilePathOf(files, i.source_file_id), root_path)}

\* C12: after a project scan an Include row has a null target_file_id exactly
\* when the included header is not a file of the indexed project, whatever the
\* order in which the files were indexed.
C12_IncludeResolution ==
  \A p \in ProjectIds :
    (scan[p].pc = "done" /\ StatusOf(p) = "completed") =>
      \A i \in IncludesUnder(RootOf(p)) :
        i.target_file_id = 0 <=> AbsPath(i.target_path) \notin FilesToScan(RootOf(p))

\* the Symbol rows a file owns
SymbolsOfFile(path) == {s \in symbols : s.file_id # 0 /\ FilePathOf(files, s.file_id) = path}

\* C16: if parsing or traversing one file fails during a scan, the scan still
\* calls index_file on every remaining file and, unless the scan body itself
\* raises, ends with status completed, not failed.
C16_ScanSurvivesFailures ==
  \A p \in ProjectIds :
    /\ scan[p].pc = "loop" =>
         \E order \in WalkOrders(FilesToScan(RootOf(p))) :
           order = [i \in 1..Len(scan[p].log) |-> scan[p].log[i].file] \o scan[p].todo
    /\ (scan[p].pc = "done" /\ ~scan[p].raised) =>
         /\ StatusOf(p) = "completed"
         /\ {scan[p].log[i].file : i \in 1..Len(scan[p].log)} = FilesToScan(RootOf(p))
         /\ \A i \in 1..Len(scan[p].log) : FileIdOf(files, scan[p].log[i].file) # 0

\* C16 witness: the scan of /p met a file that failed, indexed another file
\* after it, and is completed.
C16_Witness ==
  /\ scan[1].pc = "done" /\ ~scan[1].raised
  /\ StatusOf(1) = "completed"
  /\ \E i, j \in 1..Len(scan[1].log) :
       /\ i < j
       /\ ~scan[1].log[i].ok
       /\ scan[1].log[j].ok
       /\ SymbolsOfFile(scan[1].log[j].file) # {}

\* C20: once scan_project has returned for an existing project, by the end of
\* the file loop or by a raise of the scan body, the project's scan_status is
\* completed or failed, never scanning; a body that raised leaves failed.
C20_FinalStatus ==
  \A p \in ProjectIds :
    /\ scan[p].pc = "idle" => StatusOf(p) = "pending"
    /\ scan[p].pc \in {"body", "loop"} => StatusOf(p) = "scanning"
    /\ scan[p].pc = "done" =>
         StatusOf(p) = IF scan[p].raised THEN "failed" ELSE "completed"

\* C20 witness: one scan returned after its body raised at the end of the file
\* loop, the other after its loop finished.
C20_Witness ==
  /\ scan[1].pc = "done" /\ scan[1].raised /\ Len(scan[1].log) = Cardinality(FilesToScan(RootP))
  /\ StatusOf(1) = "failed"
  /\ scan[2].pc = "done" /\ ~scan[2].raised
  /\ StatusOf(2) = "completed"

\* ------------------------------------------------------------------ claims on failed and repeated index runs
\* the Include rows a file owns
IncludesOfFile(path) ==
  {i \in includes : i.source_file_id # 0 /\ FilePathOf(files, i.source_file_id) = path}

\* C17: if indexing of file F fails partway, every partial write of the attempt
\* is rolled back: no Symbol, Reference or Include row written for F during the
\* failed attempt remains.  (The attempt starts by deleting and committing F's
\* Symbol and Include rows, so each such row found afterwards was written by it.)
C17_FailedAttemptRolledBack ==
  (last.file # NoFile /\ ~last.ok) =>
    /\ SymbolsOfFile(last.file) = {}
    /\ IncludesOfFile(last.file) = {}
    /\ NewRefs = {}

\* C18: indexing file F, with or without a failure, leaves unchanged every
\* Symbol row of another file, every Include row of another file and every
\* File row other than F's.
C18_OtherFilesUntouched ==
  [][last'.file # NoFile =>
       LET id == FileIdOf(files', last'.file)
       IN /\ {s \in symbols : s.file_id # id} = {s \in symbols' : s.file_id # id}
          /\ {i \in includes : i.source_file_id # id} = {i \in includes' : i.source_file_id # id}
          /\ {f \in files : f.id # id} = {f \in files' : f.id # id}]_vars

\* C18 witness: b.c was indexed, with a failure, in a store that holds Symbol and
\* Include rows of a.c and a Symbol row of q/c.c.
C18_Witness ==
  /\ last.file = PathB /\ ~last.ok
  /\ SymbolsOfFile(PathA) # {}
  /\ IncludesOfFile(PathA) # {}

\* the root a source file is scanned under
ProjectRootOf(path) == IF UnderRoot(path, RootP) THEN RootP ELSE RootQ

\* C19: indexing a file of project P never deletes, changes or leaves dangling
\* a Symbol or Reference produced by indexing a file of another project Q:
\* every such row stays, and the source and target of every such Reference
\* stay the Symbols they were.
C19_ProjectsIsolated ==
  [][last'.file # NoFile =>
       LET root == ProjectRootOf(last'.file)
           foreign(file_id) == file_id # 0 /\ ~UnderRoot(FilePathOf(files, file_id), root)
       IN /\ \A s \in symbols : foreign(s.file_id) => s \in symbols'
          /\ \A r \in refs : foreign(r.file_id) =>
               /\ r \in refs'
               /\ UsrOf(symbols', r.source_id) = UsrOf(symbols, r.source_id)
               /\ UsrOf(symbols', r.target_id) = UsrOf(symbols, r.target_id)]_vars

\* ------------------------------------------------------------------ modules
\* the project the analyzer was created for (self.project_id)
AnalyzedProject == 1

\* db.query(ModuleDefinition).filter(ModuleDefinition.project_id == project_id)
ProjectModules(ms, project_id) == {m \in ms : m.project_id = project_id}

\* db.query(FileRecord).filter(FileRecord.module_id == module.id): their ids
FileIdsOfModule(fs, module_id) == {f.id : f \in {g \in fs : g.module_id = module_id}}

\* "if i == j: continue"
SkipCellNever(i, j) == FALSE

SkipCell(i, j) == i = j

\* the count query of one cell
IncludeCount(incs, src_file_ids, tgt_file_ids) ==
  Cardinality({inc \in incs : /\ inc.source_file_id \in src_file_ids
                              /\ inc.target_file_id \in tgt_file_ids})

\* get_module_dependency_matrix() when the module query yields module_list
\* (a sequence of module ids)
ModuleDependencyMatrix(fs, incs, module_list) ==
  [modules |-> module_list,
   matrix |-> [i \in 1..Len(module_list) |->
                 [j \in 1..Len(module_list) |->
                    IF SkipCell(i, j) THEN 0
                    ELSE IncludeCount(incs, FileIdsOfModule(fs, module_list[i]),
                                      FileIdsOfModule(fs, module_list[j]))]]]

\* modules core (1) and drivers (2) of the analyzed project, one module of
\* another project
ModuleRows(layer1, layer2) ==
  {[id |-> 1, project_id |-> AnalyzedProject, layer |-> layer1],
   [id |-> 2, project_id |-> AnalyzedProject, layer |-> layer2],
   [id |-> 3, project_id |-> AnalyzedProject + 1, layer |-> 0]}

\* a.c is in core and b.c in drivers; c.c is in core or in the other project's
\* module, d.c in drivers or in no module
InitMatrix ==
  /\ src \in [SourceFiles -> {1}]
  /\ \E m3 \in {1, 3} : \E m4 \in {0, 2} :
       files = {[id |-> i, path |-> ProjectRoot \o <<FileNames[i]>>,
                 module_id |-> <<1, 2, m3, m4>>[i]] : i \in 1..NumFiles}
  /\ symbols = {}
  /\ refs = {}
  /\ includes = {}
  /\ ops = 0
  /\ last = NoCall
  /\ ast = << >>
  /\ out = NoResult
  /\ arch = NoAnswer
  /\ projects = {}
  /\ modules = ModuleRows(0, 1)
  /\ rules = {}
  /\ scan = << >>

\* the same #include once more in the file that was scanned last: one more
\* Include row with the same source and target
IncludeAgain ==
  /\ arch = NoAnswer
  /\ Cardinality(includes) < MaxIncludes
  /\ \E i \in includes :
       /\ i.id = Max({j.id : j \in includes})
       /\ \A j \in includes : j.source_file_id = i.source_file_id /\
                               j.target_file_id = i.target_file_id => j.line <= i.line
       /\ includes' = includes \cup {[i EXCEPT !.id = NextId(includes), !.line = i.line + 1]}
  /\ UNCHANGED <<src, files, symbols, refs, ops, last, ast, out, arch,
                 projects, modules, rules, scan>>

\* ArchitectureAnalyzer.get_module_dependency_matrix(); the module query has no
\* ORDER BY
DependencyMatrix ==
  /\ arch = NoAnswer
  /\ \E order \in WalkOrders({m.id : m \in ProjectModules(modules, AnalyzedProject)}) :
       LET result == ModuleDependencyMatrix(files, includes, order)
       IN arch' = [op |-> "matrix", modules |-> result.modules, matrix |-> result.matrix]
  /\ UNCHANGED <<src, files, symbols, refs, includes, ops, last, ast, out,
                 projects, modules, rules, scan>>

NextMatrix ==
  \/ \E s \in 1..NumFiles : \E t \in 1..NumFiles : AddInclude(s, t)
  \/ AddInclude(NumFiles, 0)
  \/ IncludeAgain
  \/ DependencyMatrix

SpecMatrix == InitMatrix /\ [][NextMatrix]_vars

\* the module of a file (0: no such file or no module)
ModuleOfFile(file_id) ==
  IF \E f \in files : f.id = file_id
  THEN (CHOOSE f \in files : f.id = file_id).module_id ELSE 0

\* C13: the matrix is N x N over the project's modules; for i # j cell [i][j] is
\* the number of Include rows whose source file has module i and whose target
\* file has module j, and every diagonal cell is 0.
C13_ModuleMatrix ==
  arch.op = "matrix" =>
    LET N == Cardinality(ProjectModules(modules, AnalyzedProject))
    IN /\ Len(arch.modules) = N
       /\ {arch.modules[i] : i \in 1..N} = {m.id : m \in ProjectModules(modules, AnalyzedProject)}
       /\ Len(arch.matrix) = N
       /\ \A i \in 1..N :
            /\ Len(arch.matrix[i]) = N
            /\ \A j \in 1..N :
                 arch.matrix[i][j] =
                   IF i = j THEN 0
                   ELSE Cardinality({inc \in includes :
                          /\ ModuleOfFile(inc.source_file_id) = arch.modules[i]
                          /\ ModuleOfFile(inc.target_file_id) = arch.modules[j]})

\* C13 witness: core holds a.c and c.c, drivers b.c and d.c; 4 includes go from
\* drivers to core, none back.
C13_Witness ==
  /\ arch.op = "matrix"
  /\ arch.modules = <<1, 2>>
  /\ Cardinality(includes) = 4
  /\ arch.matrix[2][1] = 4
  /\ arch.matrix[1][2] = 0

\* ------------------------------------------------------------------ architecture rules
MaxRefs == 2

\* the rules query: the project's active rules
ActiveRulesIgnoresFlag(rs, project_id) == {r \in rs : r.project_id = project_id}

ActiveRules(rs, project_id) == {r \in rs : r.project_id = project_id /\ r.is_active}

\* db.query(ModuleDefinition).filter(ModuleDefinition.id == id).first(), as a set
FindModule(ms, id) == {m \in ms : m.id = id}

\* "if source_module.layer < target_module.layer"
LayerBelowOrEqual(source_layer, target_layer) == source_layer <= target_layer

LayerBelow(source_layer, target_layer) == source_layer < target_layer

\* the rows of the joined query, in the order of the Reference ids: one per
\* Reference of a source file whose target Symbol exists and is in a target file
RECURSIVE CrossModuleRefs(_, _, _, _, _)
CrossModuleRefs(rs, syms, source_file_ids, target_file_ids, after) ==
  LET rest == {r \in rs : r.id > after}
  IN IF rest = {} THEN << >>
     ELSE LET ref == CHOOSE r \in rest : \A o \in rest : r.id <= o.id
              joined == {t \in syms : /\ t.id = ref.target_id
                                      /\ ref.file_id \in source_file_ids
                                      /\ t.file_id \in target_file_ids}
              row == IF joined = {} THEN << >>
                     ELSE << [ref |-> ref, target_sym |-> CHOOSE t \in joined : TRUE] >>
          IN row \o CrossModuleRefs(rs, syms, source_file_ids, target_file_ids, ref.id)

\* _check_layer_violations(rule)
CheckLayerViolations(rule, fs, syms, rs, ms) ==
  IF rule.source_module_id = 0 \/ rule.target_module_id = 0 THEN << >>
  ELSE
    LET source_module == FindModule(ms, rule.source_module_id)
        target_module == FindModule(ms, rule.target_module_id)
    IN IF source_module = {} \/ target_module = {} THEN << >>
       ELSE
         LET source == CHOOSE m \in source_module : TRUE
             target == CHOOSE m \in target_module : TRUE
         IN IF LayerBelow(source.layer, target.layer)
            THEN LET rows == CrossModuleRefs(rs, syms, FileIdsOfModule(fs, source.id),
                                             FileIdsOfModule(fs, target.id), 0)
                 IN [k \in 1..Len(rows) |->
                       [rule_id |-> rule.id,
                        type |-> "layer_violation",
                        reference_line |-> rows[k].ref.line,
                        file_id |-> rows[k].ref.file_id,
                        target_symbol |-> rows[k].target_sym.usr]]
            ELSE << >>

\* _check_locked_module_violations(rule)
CheckLockedModuleViolations(rule) == << >>

\* check_architecture_violations() when the rules query yields rule_list
RECURSIVE CheckArchitectureViolations(_, _, _, _, _)
CheckArchitectureViolations(rule_list, fs, syms, rs, ms) ==
  IF rule_list = << >> THEN << >>
  ELSE LET rule == Head(rule_list)
           found == IF rule.rule_type = "layer_violation"
                    THEN CheckLayerViolations(rule, fs, syms, rs, ms)
                    ELSE IF rule.rule_type = "locked_module"
                    THEN CheckLockedModuleViolations(rule)
                    ELSE << >>
       IN found \o CheckArchitectureViolations(Tail(rule_list), fs, syms, rs, ms)

Rule(id, project_id, rule_type, is_active, source_module_id, target_module_id) ==
  [id |-> id, project_id |-> project_id, rule_type |-> rule_type, is_active |-> is_active,
   source_module_id |-> source_module_id, target_module_id |-> target_module_id]

\* rules the table can hold: between core (1) and ui (2), inactive, with a
\* missing (0) or dangling (4) module id, of other types, of another project
RuleCatalog ==
  { Rule(1, AnalyzedProject, "layer_violation", TRUE, 1, 2),
    Rule(2, AnalyzedProject, "layer_violation", TRUE, 2, 1),
    Rule(3, AnalyzedProject, "layer_violation", FALSE, 1, 2),
    Rule(4, AnalyzedProject, "layer_violation", TRUE, 0, 2),
    Rule(5, AnalyzedProject, "layer_violation", TRUE, 1, 0),
    Rule(6, AnalyzedProject, "layer_violation", TRUE, 1, 4),
    Rule(7, AnalyzedProject, "layer_violation", TRUE, 4, 2),
    Rule(8, AnalyzedProject, "locked_module", TRUE, 1, 2),
    Rule(9, AnalyzedProject, "forbidden_call", TRUE, 1, 2),
    Rule(10, AnalyzedProject + 1, "layer_violation", TRUE, 1, 2) }

\* a.c and c.c are in core, b.c in ui, d.c in no module; every file defines one
\* Symbol; the table holds the rule core -> ui and one more rule
InitRules ==
  /\ src \in [SourceFiles -> {1}]
  /\ files = {[id |-> i, path |-> ProjectRoot \o <<FileNames[i]>>,
               module_id |-> <<1, 2, 1, 0>>[i]] : i \in 1..NumFiles}
  /\ symbols = {[id |-> i, usr |-> <<"c:@F@a", "c:@F@b", "c:@F@c", "c:@F@d">>[i],
                 kind |-> "function", line |-> 1, cyclomatic_complexity |-> 1,
                 is_definition |-> TRUE, file_id |-> i] : i \in 1..NumFiles}
  /\ refs = {}
  /\ includes = {}
  /\ ops = 0
  /\ last = NoCall
  /\ ast = << >>
  /\ out = NoResult
  /\ arch = NoAnswer
  /\ projects = {}
  /\ \E layers \in {<<0, 1>>, <<1, 0>>, <<1, 1>>} : modules = ModuleRows(layers[1], layers[2])
  /\ \E r \in RuleCatalog : rules = {Rule(1, AnalyzedProject, "layer_violation", TRUE, 1, 2), r}
  /\ scan = << >>

\* an index run records one more Reference in file file_id to Symbol target_id
\* (NumFiles + 1: a Symbol deleted since)
AddReference(file_id, target_id) ==
  /\ arch = NoAnswer
  /\ Cardinality(refs) < MaxRefs
  /\ \A r \in refs : \/ r.file_id < file_id
                     \/ r.file_id = file_id /\ r.target_id <= target_id
  /\ refs' = refs \cup {[id |-> NextId(refs), source_id |-> file_id, target_id |-> target_id,
                         kind |-> "call", file_id |-> file_id, line |-> NextId(refs)]}
  /\ UNCHANGED <<src, files, symbols, includes, ops, last, ast, out, arch,
                 projects, modules, rules, scan>>

\* ArchitectureAnalyzer.check_architecture_violations(); the rules query has no
\* ORDER BY
CheckViolations ==
  /\ arch = NoAnswer
  /\ \E order \in WalkOrders(ActiveRules(rules, AnalyzedProject)) :
       arch' = [op |-> "violations",
                violations |-> CheckArchitectureViolations(order, files, symbols, refs, modules)]
  /\ UNCHANGED <<src, files, symbols, refs, includes, ops, last, ast, out,
                 projects, modules, rules, scan>>

NextRules ==
  \/ \E f \in 1..NumFiles : \E t \in 1..(NumFiles + 1) : AddReference(f, t)
  \/ CheckViolations

SpecRules == InitRules /\ [][NextRules]_vars

\* ------------------------------------------------------------------ claims on rules
\* the positions of the violation records of a rule
RecordsOf(rule_id) ==
  {k \in 1..Len(arch.violations) : arch.violations[k].rule_id = rule_id}

\* the layer of the module with this id (its row exists)
LayerOf(module_id) == (CHOOSE m \in modules : m.id = module_id).layer

\* the References from a file of one module to a Symbol of a file of another
RefsBetween(source_module_id, target_module_id) ==
  {r \in refs :
     /\ ModuleOfFile(r.file_id) = source_module_id
     /\ \E t \in symbols : t.id = r.target_id /\ ModuleOfFile(t.file_id) = target_module_id}

\* a rule that names two existing modules
NamesModules(rule) ==
  /\ rule.source_module_id # 0
  /\ rule.target_module_id # 0
  /\ \E m \in modules : m.id = rule.source_module_id
  /\ \E m \in modules : m.id = rule.target_module_id

\* C14: for an active layer_violation rule whose source module's layer is lower
\* than its target module's, there is exactly one violation record per
\* Reference whose file is of the source module and whose target Symbol's file
\* is of the target module; when the source layer is not lower, there is none.
C14_LayerViolations ==
  arch.op = "violations" =>
    \A rule \in rules :
      (/\ rule.project_id = AnalyzedProject
       /\ rule.is_active
       /\ rule.rule_type = "layer_violation"
       /\ NamesModules(rule)) =>
        IF LayerOf(rule.source_module_id) < LayerOf(rule.target_module_id)
        THEN LET matching == RefsBetween(rule.source_module_id, rule.target_module_id)
             IN /\ Cardinality(RecordsOf(rule.id)) = Cardinality(matching)
                /\ \A r \in matching :
                     Cardinality({k \in RecordsOf(rule.id) :
                        /\ arch.violations[k].reference_line = r.line
                        /\ arch.violations[k].file_id = r.file_id
                        /\ arch.violations[k].target_symbol = UsrOf(symbols, r.target_id)}) = 1
        ELSE RecordsOf(rule.id) = {}

\* C14 witness: core is below ui and two References of core files name the
\* Symbol of ui's file; the rule core -> ui reports both.
C14_Witness ==
  /\ arch.op = "violations"
  /\ LayerOf(1) < LayerOf(2)
  /\ Cardinality(RefsBetween(1, 2)) = 2
  /\ Cardinality(RecordsOf(1)) = 2

\* C15: a rule contributes no violation when it is inactive, when its source or
\* target module id is missing or names no existing module, or when its type
\* is locked_module; the check still returns.
C15_SkippedRules ==
  arch.op = "violations" =>
    \A rule \in rules :
      (\/ ~rule.is_active
       \/ ~NamesModules(rule)
       \/ rule.rule_type = "locked_module") => RecordsOf(rule.id) = {}

\* C15 witness: core is below ui and a Reference crosses from core to ui; the
\* second rule of the table is one that is skipped, and the check returned the
\* record of the first rule only.
C15_Witness ==
  /\ arch.op = "violations"
  /\ LayerOf(1) < LayerOf(2)
  /\ RefsBetween(1, 2) # {}
  /\ \E rule \in rules :
       /\ rule.id # 1
       /\ rule.project_id = AnalyzedProject
       /\ ~rule.is_active \/ ~NamesModules(rule) \/ rule.rule_type = "locked_module"
  /\ RecordsOf(1) = 1..Len(arch.violations)
  /\ arch.violations # << >>

\* ------------------------------------------------------------------ scan requests
\* scan tasks the endpoint may queue
MaxTasks == 2

\* the root of a project whose directory was removed after create_project
RootGone == <<"gone">>

\* the Project table: the projects over /p and /q and one whose root is gone
RequestProjects ==
  ProjectRows \cup {[id |-> 3, root_path |-> RootGone, scan_status |-> "pending"]}

\* the ids a scan can be requested for; the last one names no Project
RequestIds == {p.id : p \in RequestProjects} \cup {4}

\* the directories on disk
ExistingDirs == {RootP, RootQ}

\* os.walk(root_path): a root that is no directory yields nothing (the error of
\* the directory listing is ignored, onerror being None)
Walk(root_path) == IF root_path \in ExistingDirs THEN FilesToScan(root_path) ELSE {}

\* db.query(Project).filter(Project.id == project_id).first(), as a set
FindProject(ps, project_id) == {p \in ps : p.id = project_id}

NoResponse == [project_id |-> 0, code |-> 0]

InitRequests ==
  /\ src \in [SourceFiles -> {1}]
  /\ files = {}
  /\ symbols = {}
  /\ refs = {}
  /\ includes = {}
  /\ ops = 0
  /\ last = NoCall
  /\ ast = << >>
  /\ out = NoResult
  /\ arch = NoAnswer
  /\ projects = RequestProjects
  /\ modules = {}
  /\ rules = {}
  /\ scan = [tasks |-> << >>, response |-> NoResponse]

\* POST /projects/{project_id}/scan: 404 when the project is not found, else
\* the task is added with the project's id and root_path and 200 is returned
ScanProjectEndpoint(project_id) ==
  /\ Len(scan.tasks) < MaxTasks
  /\ LET project == FindProject(projects, project_id)
     IN IF project = {}
        THEN scan' = [scan EXCEPT !.response = [project_id |-> project_id, code |-> 404]]
        ELSE scan' = [tasks |-> Append(scan.tasks,
                                  [project_id |-> project_id,
                                   root_path |-> (CHOOSE p \in project : TRUE).root_path,
                                   pc |-> "queued", todo |-> << >>, indexed |-> 0]),
                      response |-> [project_id |-> project_id, code |-> 200]]
  /\ UNCHANGED <<src, files, symbols, refs, includes, ops, last, ast, out, arch,
                 projects, modules, rules>>

\* "if project:": the status is written when the task finds the Project row
SetStatusIfFound(ps, project_id, status) ==
  IF FindProject(ps, project_id) # {} THEN SetStatus(ps, project_id, status) ELSE ps

\* scan_project_task -> scan_project, up to the commit of "scanning"
TaskStart(t) ==
  /\ scan.tasks[t].pc = "queued"
  /\ projects' = SetStatusIfFound(projects, scan.tasks[t].project_id, "scanning")
  /\ scan' = [scan EXCEPT !.tasks[t].pc = "body"]
  /\ UNCHANGED <<src, files, symbols, refs, includes, ops, last, ast, out, arch, modules, rules>>

\* the files are collected
TaskCollect(t) ==
  /\ scan.tasks[t].pc = "body"
  /\ \E order \in WalkOrders(Walk(scan.tasks[t].root_path)) :
       scan' = [scan EXCEPT !.tasks[t].pc = "loop", !.tasks[t].todo = order]
  /\ UNCHANGED <<src, files, symbols, refs, includes, ops, last, ast, out, arch,
                 projects, modules, rules>>

\* one turn of the file loop of a task
TaskIndexFile(t) ==
  /\ scan.tasks[t].pc = "loop"
  /\ scan.tasks[t].todo # << >>
  /\ ops < MaxOps
  /\ LET path == Head(scan.tasks[t].todo)
     IN \E failNode \in FailPoints(path, TuOf(path)) :
          LET st == IndexFileSession(path, TuOf(path),
                                     NewSession(files, symbols, refs, includes, failNode))
          IN /\ files' = st.files
             /\ symbols' = st.symbols
             /\ refs' = st.refs
             /\ includes' = st.includes
             /\ last' = [file |-> path, ok |-> ~st.raised,
                         newRefs |-> {r.id : r \in st.refs \ refs}]
             /\ scan' = [scan EXCEPT !.tasks[t].todo = Remaining(@, ~st.raised),
                                     !.tasks[t].indexed = @ + 1]
  /\ ops' = ops + 1
  /\ UNCHANGED <<src, ast, out, arch, projects, modules, rules>>

\* the loop of a task is over: "completed" is committed
TaskComplete(t) ==
  /\ scan.tasks[t].pc = "loop"
  /\ scan.tasks[t].todo = << >>
  /\ projects' = SetStatusIfFound(projects, scan.tasks[t].project_id, "completed")
  /\ scan' = [scan EXCEPT !.tasks[t].pc = "done"]
  /\ UNCHANGED <<src, files, symbols, refs, includes, ops, last, ast, out, arch, modules, rules>>

\* the body of a task raises outside the file loop: the handler commits "failed"
TaskRaise(t) ==
  /\ \/ scan.tasks[t].pc = "body"
     \/ scan.tasks[t].pc = "loop" /\ scan.tasks[t].todo = << >>
  /\ projects' = SetStatusIfFound(projects, scan.tasks[t].project_id, "failed")
  /\ scan' = [scan EXCEPT !.tasks[t].pc = "done"]
  /\ UNCHANGED <<src, files, symbols, refs, includes, ops, last, ast, out, arch, modules, rules>>

\* the background tasks run in the server's thread pool, one session each
NextRequests ==
  \/ \E project_id \in RequestIds : ScanProjectEndpoint(project_id)
  \/ \E t \in 1..Len(scan.tasks) :
       \/ TaskStart(t)
       \/ TaskCollect(t)
       \/ TaskIndexFile(t)
       \/ TaskComplete(t)
       \/ TaskRaise(t)

SpecRequests == InitRequests /\ [][NextRequests]_vars

\* ------------------------------------------------------------------ claims on scan requests
\* the status changes the status object allows
AllowedStatusChanges ==
  {<<"pending", "scanning">>, <<"scanning", "completed">>, <<"scanning", "failed">>}

\* C21: over any sequence of scans of a project, repeated scans included, every
\* change of scan_status is one of pending -> scanning, scanning -> completed,
\* scanning -> failed.
C21_StatusTransitions ==
  [][\A p \in projects : \A q \in projects' :
       (p.id = q.id /\ p.scan_status # q.scan_status) =>
         <<p.scan_status, q.scan_status>> \in AllowedStatusChanges]_vars

\* the tasks queued for a project
TasksOf(project_id) ==
  {t \in 1..Len(scan.tasks) : scan.tasks[t].project_id = project_id}

\* C22: a scan requested for a project that does not exist, or for a root path
\* that does not exist, is answered by an explicit error before any work
\* begins: no task indexes a file for it and no scan status is written.
C22_FatalBeforeWork ==
  /\ (scan.response.project_id # 0 /\
      \A p \in projects : p.id = scan.response.project_id => p.root_path \notin ExistingDirs)
       => scan.response.code >= 400
  /\ \A p \in projects :
       p.root_path \notin ExistingDirs =>
         /\ p.scan_status = "pending"
         /\ TasksOf(p.id) = {}
  /\ \A t \in 1..Len(scan.tasks) : \E p \in projects : p.id = scan.tasks[t].project_id

\* C30: whenever a project's scan_status reads completed or failed, no scan of
\* that project is still indexing files, also when the scan endpoint was
\* invoked again for the project while an earlier scan was running.
C30_FinalMeansIdle ==
  \A p \in projects :
    p.scan_status \in {"completed", "failed"} =>
      \A t \in TasksOf(p.id) : scan.tasks[t].pc \notin {"body", "loop"}

\* ------------------------------------------------------------------ claims on the rows of earlier runs
\* the Symbol rows that the index run of a file deletes (those of the file)
DeletedBy(syms, fs, path) == {s \in syms : s.file_id = FileIdOf(fs, path)}

\* C23: re-indexing a file deletes and modifies no Reference: the References
\* recorded earlier stay, source_id and target_id unchanged, and those that
\* point at a Symbol the run deletes (and recreates under a new id) are left
\* pointing at the id of no existing Symbol.
C23_ReferencesOrphaned ==
  [][last'.file # NoFile =>
       \A r \in refs :
         /\ r \in refs'
         /\ \A s \in DeletedBy(symbols, files, last'.file) :
              (s.id = r.target_id \/ s.id = r.source_id) =>
                ~\E t \in symbols' : t.id = s.id]_vars

\* ------------------------------------------------------------------ signatures
\* runs of text the front-end may report for one declaration
MaxRuns == 3

\* "if len(sig) > 500: sig = sig[:500] + ..."
SignatureLimit == 500

\* A text is the sequence of its runs: n times the character ch.  "x" stands
\* for any character that is no white space.
Run(ch, n) == [ch |-> ch, n |-> n]

WhiteSpace == {" ", "\n", "\t"}

\* len(text)
TextLen(text) == SeqSum([i \in 1..Len(text) |-> text[i].n])

\* sig.split(): the words of the text, white space dropped, each word one run
RECURSIVE SplitWords(_, _)
SplitWords(text, word) ==
  IF text = << >> THEN (IF word = 0 THEN << >> ELSE <<Run("x", word)>>)
  ELSE IF Head(text).ch \in WhiteSpace
       THEN (IF word = 0 THEN << >> ELSE <<Run("x", word)>>) \o SplitWords(Tail(text), 0)
       ELSE SplitWords(Tail(text), word + Head(text).n)

\* ' '.join(words)
RECURSIVE JoinWords(_)
JoinWords(words) ==
  IF words = << >> THEN << >>
  ELSE IF Len(words) = 1 THEN words
  ELSE <<Head(words), Run(" ", 1)>> \o JoinWords(Tail(words))

\* text[:k]
RECURSIVE Take(_, _)
Take(text, k) ==
  IF text = << >> \/ k <= 0 THEN << >>
  ELSE IF Head(text).n <= k THEN <<Head(text)>> \o Take(Tail(text), k - Head(text).n)
  ELSE <<Run(Head(text).ch, k)>>

\* get_symbol_signature(cursor): readable tells whether the source text of the
\* extent can be read (else the except branch falls through to the display name)
GetSymbolSignature(cursor, readable) ==
  IF readable
  THEN LET sig == JoinWords(SplitWords(cursor.text, 0))
       IN IF TextLen(sig) > SignatureLimit
          THEN Take(sig, SignatureLimit) \o <<Run(".", 3)>>
          ELSE sig
  ELSE cursor.displayname

\* the lengths of the runs the front-end reports
RunLengths == {1, 2, 248, 249, 250, 499, 500, 501}

\* cursor.displayname or cursor.spelling: a name, or a function with its
\* parameter types
DisplayNames == {<<Run("x", 6)>>, <<Run("x", 40)>>}

InitSig ==
  /\ src \in [SourceFiles -> {1}]
  /\ files = {}
  /\ symbols = {}
  /\ refs = {}
  /\ includes = {}
  /\ ops = 0
  /\ last = NoCall
  /\ \E d \in DisplayNames : ast = [text |-> << >>, displayname |-> d]
  /\ out = NoResult
  /\ arch = NoAnswer
  /\ projects = {}
  /\ modules = {}
  /\ rules = {}
  /\ scan = << >>

\* the extent of the declaration covers one more run of text
ExtendExtent(ch, n) ==
  /\ ~out.done
  /\ Len(ast.text) < MaxRuns
  /\ ast.text # << >> => ast.text[Len(ast.text)].ch # ch
  /\ ast' = [ast EXCEPT !.text = Append(@, Run(ch, n))]
  /\ UNCHANGED <<src, files, symbols, refs, includes, ops, last, out, arch,
                 projects, modules, rules, scan>>

\* get_or_create_symbol stores signature = get_symbol_signature(cursor)
StoreSignature(readable) ==
  /\ ~out.done
  /\ ast.text # << >>
  /\ out' = [done |-> TRUE, readable |-> readable,
             signature |-> GetSymbolSignature(ast, readable)]
  /\ UNCHANGED <<src, files, symbols, refs, includes, ops, last, ast, arch,
                 projects, modules, rules, scan>>

NextSig ==
  \/ \E ch \in WhiteSpace \cup {"x"} : \E n \in RunLengths : ExtendExtent(ch, n)
  \/ \E readable \in BOOLEAN : StoreSignature(readable)

SpecSig == InitSig /\ [][NextSig]_vars

\* C24: every stored Symbol signature is at most 500 characters long, whatever
\* the length of the declaration's source text.
C24_SignatureLength == out.done => TextLen(out.signature) <= 500

\* ------------------------------------------------------------------ claims on symbol rows
\* C25: first encounter wins: when an index run meets a node whose usr already
\* has a Symbol row (one the run's own deletion leaves in place), the run uses
\* that row as the target of its References and changes none of its fields,
\* and adds no second row for the usr, also when the row came from a bare
\* declaration or a use and the node met now is the definition.
C25_FirstEncounterWins ==
  [][last'.file # NoFile =>
       LET id    == FileIdOf(files', last'.file)
           nodes == TuOf(last'.file).nodes
       IN \A s \in symbols :
            s.file_id # id =>
              /\ s \in symbols'
              /\ \A t \in symbols' : t.usr = s.usr => t = s
              /\ \A r \in refs' \ refs :
                   nodes[nodes[r.line].ref].usr = s.usr => r.target_id = s.id]_vars

\* C25 witness: a.c was indexed first and created the rows of g and x from the
\* header's declarations; b.c, which defines both, was indexed after it: the
\* rows still are a.c's declarations and b.c's References to x point at the row.
C25_Witness ==
  /\ last.file = PathB /\ last.ok /\ src[PathB] = 1
  /\ \E n \in 1..Len(LastNodes) :
       /\ LastNodes[n].usr = "c:@F@g" /\ LastNodes[n].isdef /\ LastNodes[n].file = PathB
  /\ \E s \in symbols :
       /\ s.usr = "c:@F@g" /\ ~s.is_definition
       /\ FilePathOf(files, s.file_id) = PathA
  /\ \E s \in symbols :
       /\ s.usr = "c:@x" /\ ~s.is_definition
       /\ FilePathOf(files, s.file_id) = PathA
       /\ \E r \in NewRefs : r.target_id = s.id

\* ------------------------------------------------------------------ claims on write context
\* the name references recorded as written
WrittenNameRefs ==
  {n \in (FnRoot + 1)..Len(ast) :
     IsNameRef(ast, n) /\ \E r \in RefsAt(n) : r.kind = "write"}

\* n is the first child of its parent
IsFirstChild(nodes, n) ==
  nodes[n].parent # 0 /\ ChildSeq(nodes, nodes[n].parent)[1] = n

\* C26: a name reference is recorded as write only when it is the first child
\* of a node that is itself an assignment; a binary operator that is no
\* assignment (a comparison, a sum) with an assignment nested elsewhere in its
\* extent does not make its own first child a write.
C26_WriteOnlyUnderAssignment ==
  out.done =>
    \A n \in WrittenNameRefs :
      /\ IsFirstChild(ast, n)
      /\ IsAssignmentNode(ast, ast[n].parent)

\* ------------------------------------------------------------------ claims on the file of a symbol
\* C27: the file_id of every Symbol an index run creates is the File in which
\* the entity's declaration node is located (the node that supplies its line),
\* whichever file was being indexed.
C27_FileOfDeclaration ==
  [][last'.file # NoFile =>
       \A s \in symbols' \ symbols :
         FilePathOf(files', s.file_id) = AbsPath(TuOf(last'.file).nodes[s.line].file)]_vars

\* ------------------------------------------------------------------ cycles and layers of one graph
\* the branch compute_levelization takes: "if not nx.is_directed_acyclic_graph(G)"
LevelizationBranch(fs, incs, root) ==
  IF ~IsDirectedAcyclicGraph(BuildIncludeGraph(fs, incs, root))
  THEN "condensation" ELSE "longest_path"

\* compute_levelization() asked after detect_circular_dependencies() on the
\* same store
LevelizationAfterCycles ==
  /\ arch.op = "cycles"
  /\ \E layers \in Levelizations(files, includes, ProjectRoot) :
       arch' = [op |-> "report", groups |-> arch.groups, layers |-> layers,
                branch |-> LevelizationBranch(files, includes, ProjectRoot)]
  /\ UNCHANGED <<src, files, symbols, refs, includes, ops, last, ast, out,
                 projects, modules, rules, scan>>

NextReport ==
  \/ \E s \in 1..NumFiles : \E t \in 1..NumFiles : AddInclude(s, t)
  \/ AddInclude(NumFiles, 0)
  \/ DetectCircular
  \/ LevelizationAfterCycles

SpecReport == InitArch /\ [][NextReport]_vars

\* C28: compute_levelization and detect_circular_dependencies agree on
\* cyclicity for every include graph, self-includes included: the longest-path
\* (acyclic) regime is used if and only if no circular group is returned.
C28_RegimesAgree ==
  arch.op = "report" => (arch.branch = "longest_path" <=> arch.groups = {})

\* ------------------------------------------------------------------ generated left-hand sides
\* nodes the front-end may add below the function of a generated assignment
MaxLhs == 3

\* p/a.c:  struct S { int m; };  struct S s;  int f(void) { ... }
LhsPrefix ==
  << Nd("TRANSLATION_UNIT", 0, NoFile, "", 0, "", FALSE),
     Nd("STRUCT_DECL", 1, PathA, "c:@S@S", 0, "", TRUE),
     Nd("FIELD_DECL", 2, PathA, "c:@S@S@FI@m", 0, "", TRUE),
     Nd("VAR_DECL", 1, PathA, "c:@s", 0, "", TRUE),
     Nd("FUNCTION_DECL", 1, PathA, "c:@F@f", 0, "", TRUE) >>

LhsRoot == Len(LhsPrefix)

\* cursors of assignments with compound left-hand sides: kind, own operator
\* token, referenced declaration
LhsTemplates ==
  { <<"BINARY_OPERATOR", "=", 0>>,
    <<"BINARY_OPERATOR", "+", 0>>,
    <<"ARRAY_SUBSCRIPT_EXPR", "", 0>>,
    <<"UNARY_OPERATOR", "*", 0>>,
    <<"MEMBER_REF_EXPR", "", 3>>,
    <<"DECL_REF_EXPR", "", 4>> }

\* the last node and its ancestors inside the function at root
RECURSIVE RightPathFrom(_, _, _)
RightPathFrom(nodes, n, root) ==
  IF n <= root THEN {root} ELSE {n} \cup RightPathFrom(nodes, nodes[n].parent, root)

\* the front-end reports one more cursor of f's body
GrowLhs ==
  /\ ~out.done
  /\ Len(ast) < LhsRoot + MaxLhs
  /\ \E t \in LhsTemplates :
       \E p \in {q \in RightPathFrom(ast, Len(ast), LhsRoot) : ast[q].kind # "DECL_REF_EXPR"} :
         ast' = Append(ast, Nd(t[1], p, PathA, "", t[3], t[2], FALSE))
  /\ UNCHANGED <<src, files, symbols, refs, includes, ops, last, out, arch,
                 projects, modules, rules, scan>>

InitLhs ==
  /\ src \in [SourceFiles -> {1}]
  /\ files = {}
  /\ symbols = {}
  /\ refs = {}
  /\ includes = {}
  /\ ops = 0
  /\ last = NoCall
  /\ ast = LhsPrefix
  /\ out = NoResult
  /\ arch = NoAnswer
  /\ projects = {}
  /\ modules = {}
  /\ rules = {}
  /\ scan = << >>

SpecLhs == InitLhs /\ [][GrowLhs \/ Analyze]_vars

\* the Reference recorded for name reference n, were it of this kind
NameRefRecord(n, kind) ==
  [line |-> n, kind |-> kind, source |-> "c:@F@f", target |-> ast[ast[n].ref].usr]

\* C29: write context reaches the first child of an assignment only and is not
\* inherited by that child's descendants: for an assignment whose left-hand
\* side is a compound expression (subscript, dereference, member access, with
\* no further assignment inside), every name reference below the first child
\* is recorded as read, and the first child is recorded as write exactly when
\* it is itself a name or member reference.
C29_WriteContextNotInherited ==
  out.done =>
    \A n \in (LhsRoot + 1)..Len(ast) :
      (IsAssignmentNode(ast, n) /\ ChildSeq(ast, n) # << >>) =>
        LET first == ChildSeq(ast, n)[1]
        IN /\ IsNameRef(ast, first) => RefsAt(first) = {NameRefRecord(first, "write")}
           /\ ~IsNameRef(ast, first) => RefsAt(first) = {}
           /\ ~HasAssignmentBelow(ast, first) =>
                \A m \in Subtree(ast, first) \ {first} :
                  IsNameRef(ast, m) => RefsAt(m) = {NameRefRecord(m, "read")}

\* C29 witness: the body of f is s.m = ...: the member reference m is written,
\* the variable s below it is read.
C29_Witness ==
  /\ out.done
  /\ Len(ast) = LhsRoot + 3
  /\ IsAssignmentNode(ast, LhsRoot + 1)
  /\ ast[LhsRoot + 2].kind = "MEMBER_REF_EXPR" /\ ast[LhsRoot + 2].parent = LhsRoot + 1
  /\ ast[LhsRoot + 3].kind = "DECL_REF_EXPR" /\ ast[LhsRoot + 3].parent = LhsRoot + 2
  /\ out.refs = {[line |-> LhsRoot + 2, kind |-> "write", source |-> "c:@F@f",
                  target |-> "c:@S@S@FI@m"],
                 [line |-> LhsRoot + 3, kind |-> "read", source |-> "c:@F@f",
                  target |-> "c:@s"]}
====
